---- MODULE Spec2Model ----
(***************************************************************************)
(* Model of bb-bot's storage actor (src/db), its typed request protocol,   *)
(* the session registries (src/shared/mod.rs), the interaction handlers    *)
(* (src/hob/interaction.rs, src/role/interaction/config.rs), the session   *)
(* creating commands (src/commands/hob.rs, src/commands/role.rs) and the   *)
(* timeout supervisor (src/shared/menu/timeout.rs).                        *)
(***************************************************************************)
EXTENDS Integers, Sequences, FiniteSets, TLC

(***************************************************************************)
(* Bounds of the model.                                                    *)
(***************************************************************************)
\* callers of DbHandle::request in the storage-actor specification
MaxCallers == 2
\* requests each such caller issues one after the other
MaxRequests == 2
\* distinct Minecraft UUIDs that requests may name
MaxUuid == 2
\* stand-in for the capacity of mpsc::channel(32) (src/src/main.rs:50)
ChannelCapacity == 2
\* sessions the commands create
MaxSessions == 2
\* interactions that arrive
MaxInteractions == 2
\* values generate_id may return
MaxMenuId == 2
\* ids of HoB entries that requests may name
MaxHobId == 2
\* players of a one-off entry, and ids of sub-entries
MaxChild == 2
\* players or sub-entries one request lists
MaxChildren == 2
\* width of usize in bits, scaled down
UsizeBits == 5

DbCallers == 1..MaxCallers
Uuids == 1..MaxUuid
Sessions == 1..MaxSessions
Interactions == 1..MaxInteractions
MenuIds == 1..MaxMenuId

\* the tasks that take locks: the command creating session s, the timeout task
\* spawned for it, and the handler of interaction h
Cmd(s) == <<"command", s>>
Timeout(s) == <<"timeout", s>>
Handler(h) == <<"interaction", h>>
DbThread == <<"db_thread", 0>>
NoTask == <<"none", 0>>
\* the caller of DbHandle::request that the handler of interaction h is
HandlerCaller(h) == MaxCallers + h

None == [some |-> FALSE]
Some(x) == [some |-> TRUE, val |-> x]

\* a caller's knowledge of its own row, and the result of an answered get
Unknown == [known |-> FALSE]
Known(row) == [known |-> TRUE, row |-> row]
NoGet == [got |-> FALSE]
Got(row) == [got |-> TRUE, row |-> row]

VARIABLES
    \* ---- storage actor (src/src/db) ----
    chan,       \* mpsc channel: boxed requests sent and not yet received
    current,    \* the request the db thread received and has not executed yet
    thread,     \* "init" | "running" | "returned" | "panicked": the db thread
    conn,       \* the connection's role_users_linked table: set of rows
    oneshot,    \* per request: state of its private reply channel
    responses,  \* per request: number of values sent on its reply channel
    accepted,   \* history: request ids in the order the channel took them
    executed,   \* history: request ids in the order execute() ran
    \* ---- callers of DbHandle::request ----
    cpc,        \* per caller: "idle" | "await"
    cseq,       \* per caller: number of requests issued so far
    creq,       \* per caller: the request whose reply it awaits
    view,       \* per caller: what its answered requests say about its row
    lastGet,    \* per caller: result of the request just answered, if a get
    lastErr,    \* per caller: error of the request just answered
    \* ---- session registry and sessions (src/src/shared/mod.rs) ----
    sessions,   \* hob_sessions / role_sessions: menu id -> session, 0 if absent
    regLock,    \* the task holding the registry's Mutex, or NoTask
    sessLock,   \* per session: the task holding the session's Mutex, or NoTask
    menuId,     \* per session: its menu_id, 0 before it is created
    page,       \* per session: state.page
    permit,     \* per session: timeout_reset (Notify) holds a permit
    message,    \* per session: "none" | "active" | "disabled" controls
    invalidated,\* per session: number of invalidate() calls made on it
    \* ---- tasks ----
    cmdPc,      \* per session: position of the command that creates it
    tpc,        \* per session: position of its timeout task
    tmenu,      \* per timeout task: the session it removed, 0 if none
    hpc,        \* per interaction: position of its handler
    hreq,       \* per interaction: the menu id its custom_id names
    hsess,      \* per interaction: the session handle it cloned, 0 if none
    \* ---- the Hypixel API and the clock, as player_roles sees them ----
    apiBingo,   \* id of the bingo the API reports as current
    apiEnded,   \* the clock has passed the end of that bingo
    apiDone,    \* per player: the bingos the API lists as completed
    \* ---- current bingo and cache tables (src/src/shared/db.rs, role/db.rs) ----
    curBingo,   \* current_bingo_global.current_bingo, 0 while there is no row
    complCache, \* role_completions_cache: set of rows
    rankCache,  \* role_bingo_rank_cache: set of rows
    immCache,   \* role_immortal_cache: set of rows
    \* ---- player_roles runs (src/src/role/request.rs) ----
    rpc,        \* per run: its position
    rloc,       \* per run: its local variables
    lookup,     \* history: the cache lookup the last step executed, if any
    insert,     \* history: the cache insert the last step executed, if any
    \* ---- one HoB edit session's menu state (src/src/hob/menu.rs) ----
    navState,   \* session.state
    hobEntries, \* number of HoB entries a listing returns, in all and per query
    subentries, \* number of subentries of the entry being viewed
    navBefore,  \* history: session.state when the last interaction began
    navLast,    \* history: the last interaction and how it ended
    \* ---- error reporting (src/src/error.rs) ----
    hreport,    \* per interaction: what event_handler_error made of its error
    \* ---- startup (src/src/main.rs:50-58, src/src/db/db_thread.rs) ----
    startup,    \* schema: tables created; ready: the value on ready_tx; main
    \* ---- the db thread's execution of one request ----
    frames,     \* the execute bodies on the db thread's stack, outermost first
    \* ---- the HoB tables (src/src/hob/db.rs) ----
    hobDb,      \* the rows of the four hob_ tables as the connection sees them
    hobTxn,     \* the HoB request being executed: position, transaction snapshot
    \* ---- one call of PaginatedChunk::new (src/src/shared/menu/navigation.rs) ----
    chunkArgs,  \* its arguments
    chunk,      \* its result, None before the call
    \* ---- the sender of an interaction ----
    hsender,    \* per interaction: "owner" | "other" once past the owner check
    \* ---- the splash reminder (src/src/splash_reminder) ----
    splash,     \* the handle, the timer tasks, the reaction handlers, reminders sent
    \* ---- the linked-user requests run one after the other ----
    linkLast    \* history: the last request, the table before it, its result

dbVars == <<chan, current, thread, conn, oneshot, responses, accepted, executed>>
callerVars == <<cpc, cseq, creq, view, lastGet, lastErr>>
menuVars == <<sessions, regLock, sessLock, menuId, page, permit, message,
              invalidated, cmdPc, tpc, tmenu, hpc, hreq, hsess>>
cacheVars == <<apiBingo, apiEnded, apiDone, curBingo, complCache, rankCache,
               immCache, rpc, rloc, lookup, insert>>
navVars == <<navState, hobEntries, subentries, navBefore, navLast>>
\* what the storage actor, the registry and the session tasks leave alone
errVars == <<hreport>>
bootVars == <<startup>>
execVars == <<frames, hobDb, hobTxn>>
auxVars == <<chunkArgs, chunk, hsender, splash, linkLast>>
extVars == <<cacheVars, navVars, errVars, bootVars, execVars, auxVars>>
vars == <<dbVars, callerVars, menuVars, cacheVars, navVars, errVars, bootVars,
          execVars, auxVars>>

Callers == 1..(MaxCallers + MaxInteractions)
ReqIds == Callers \X (1..MaxRequests)

(***************************************************************************)
(* DbRequest::execute for the linked-user requests (src/src/role/db/link.rs)*)
(* A row is <<discord, uuid>>.  The result is the new table and the value. *)
(***************************************************************************)
RowsByDiscord(table, discord) == {row \in table : row[1] = discord}
RowsByMinecraft(table, uuid) == {row \in table : row[2] = uuid}

\* GetLinkedUserByDiscord: SELECT minecraft_uuid WHERE discord_id=?1
GetLinkedUserByDiscord(table, discord) ==
    [table |-> table,
     value |-> IF RowsByDiscord(table, discord) = {}
               THEN None
               ELSE Some((CHOOSE row \in RowsByDiscord(table, discord) : TRUE)[2])]

\* InsertLinkedUser: duplicate checks, then INSERT; value is the duplicate found
InsertLinkedUser(table, discord, uuid) ==
    IF RowsByDiscord(table, discord) # {}
    THEN [table |-> table, value |-> [duplicate |-> "uuid"]]
    ELSE IF RowsByMinecraft(table, uuid) # {}
    THEN [table |-> table, value |-> [duplicate |-> "discord"]]
    ELSE [table |-> table \cup {<<discord, uuid>>}, value |-> [duplicate |-> "none"]]

\* RemoveLinkedUserByDiscord: DELETE WHERE discord_id=?1 RETURNING minecraft_uuid
RemoveLinkedUserByDiscord(table, discord) ==
    [table |-> table \ RowsByDiscord(table, discord),
     value |-> GetLinkedUserByDiscord(table, discord).value]

Execute(req, table) ==
    CASE req.kind = "get" -> GetLinkedUserByDiscord(table, req.discord)
      [] req.kind = "insert" -> InsertLinkedUser(table, req.discord, req.uuid)
      [] req.kind = "remove" -> RemoveLinkedUserByDiscord(table, req.discord)

\* the requests caller c may issue next, all about its own Discord id; a
\* request may panic inside execute (as RoleId::new does on a stored 0,
\* src/src/role/db/role_config/read.rs:30)
Requests(c) ==
    [id : {<<c, cseq[c] + 1>>}, kind : {"insert"},
     discord : {c}, uuid : Uuids, panics : BOOLEAN]
    \cup [id : {<<c, cseq[c] + 1>>}, kind : {"get", "remove"},
          discord : {c}, uuid : {0}, panics : BOOLEAN]

(***************************************************************************)
(* DbHandle::request (src/src/db/mod.rs:22-33)                             *)
(***************************************************************************)
\* try_send in place of send(..).await: a full channel rejects the request
RequestSendTrySend(c, req) ==
    /\ cpc[c] = "idle"
    /\ cseq[c] < MaxRequests
    /\ cseq' = [cseq EXCEPT ![c] = @ + 1]
    /\ lastGet' = [lastGet EXCEPT ![c] = NoGet]
    /\ IF thread = "panicked" \/ Len(chan) >= ChannelCapacity
       THEN /\ lastErr' = [lastErr EXCEPT ![c] = "send_error"]
            /\ view' = [view EXCEPT ![c] = Unknown]
            /\ UNCHANGED <<cpc, creq, dbVars>>
       ELSE /\ chan' = Append(chan, req)
            /\ accepted' = Append(accepted, req.id)
            /\ oneshot' = [oneshot EXCEPT ![req.id] = [st |-> "open"]]
            /\ cpc' = [cpc EXCEPT ![c] = "await"]
            /\ creq' = [creq EXCEPT ![c] = Some(req)]
            /\ lastErr' = [lastErr EXCEPT ![c] = "none"]
            /\ UNCHANGED <<current, thread, conn, responses, executed, view>>
    /\ UNCHANGED <<cacheVars, navVars, bootVars, execVars, auxVars>>

\* self.tx.send(Box::new(wrapped)).await: waits while the channel is full,
\* fails once the receiver is gone
RequestSend(c, req) ==
    /\ cpc[c] = "idle"
    /\ cseq[c] < MaxRequests
    /\ cseq' = [cseq EXCEPT ![c] = @ + 1]
    /\ lastGet' = [lastGet EXCEPT ![c] = NoGet]
    /\ IF thread = "panicked"
       THEN /\ lastErr' = [lastErr EXCEPT ![c] = "send_error"]
            /\ view' = [view EXCEPT ![c] = Unknown]
            /\ UNCHANGED <<cpc, creq, dbVars>>
       ELSE /\ Len(chan) < ChannelCapacity
            /\ chan' = Append(chan, req)
            /\ accepted' = Append(accepted, req.id)
            /\ oneshot' = [oneshot EXCEPT ![req.id] = [st |-> "open"]]
            /\ cpc' = [cpc EXCEPT ![c] = "await"]
            /\ creq' = [creq EXCEPT ![c] = Some(req)]
            /\ lastErr' = [lastErr EXCEPT ![c] = "none"]
            /\ UNCHANGED <<current, thread, conn, responses, executed, view>>
    /\ UNCHANGED <<cacheVars, navVars, bootVars, execVars, auxVars>>

\* what an answered request tells its caller about its own row
ViewAfter(old, req, value) ==
    CASE req.kind = "get" -> IF old.known THEN old ELSE Known(value)
      [] req.kind = "insert" ->
            IF value.duplicate = "none" THEN Known(Some(req.uuid))
            ELSE IF value.duplicate = "uuid" THEN old
            ELSE Known(None)
      [] req.kind = "remove" -> Known(None)

\* Ok(resp_rx.await?): the value, or RecvError once the sender was dropped
RequestAwait(c) ==
    LET id == <<c, cseq[c]>>
        ch == oneshot[id]
        req == creq[c].val
    IN
    /\ cpc[c] = "await"
    /\ ch.st \in {"sent", "tx_dropped"}
    /\ cpc' = [cpc EXCEPT ![c] = "idle"]
    /\ creq' = [creq EXCEPT ![c] = None]
    /\ IF ch.st = "sent"
       THEN /\ lastGet' = [lastGet EXCEPT ![c] =
                   IF req.kind = "get" THEN Got(ch.value) ELSE NoGet]
            /\ view' = [view EXCEPT ![c] = ViewAfter(@, req, ch.value)]
            /\ lastErr' = [lastErr EXCEPT ![c] = "none"]
       ELSE /\ lastErr' = [lastErr EXCEPT ![c] = "recv_error"]
            /\ view' = [view EXCEPT ![c] = Unknown]
            /\ UNCHANGED lastGet
    /\ oneshot' = [oneshot EXCEPT ![id] = [st |-> "taken"]]
    /\ UNCHANGED <<chan, current, thread, conn, responses, accepted, executed, cseq>>
    /\ UNCHANGED <<cacheVars, navVars, bootVars, execVars, auxVars>>

\* the future of request() is dropped while it awaits the reply: the receiving
\* end of the reply channel goes away
RequestCancel(c) ==
    LET id == <<c, cseq[c]>> IN
    /\ cpc[c] = "await"
    /\ cpc' = [cpc EXCEPT ![c] = "idle"]
    /\ creq' = [creq EXCEPT ![c] = None]
    /\ oneshot' = [oneshot EXCEPT ![id] = [st |-> "rx_dropped"]]
    /\ view' = [view EXCEPT ![c] = Unknown]
    /\ lastErr' = [lastErr EXCEPT ![c] = "cancelled"]
    /\ UNCHANGED <<chan, current, thread, conn, responses, accepted, executed,
                   cseq, lastGet>>
    /\ UNCHANGED <<cacheVars, navVars, bootVars, execVars, auxVars>>

(***************************************************************************)
(* start_db_thread's loop (src/src/db/db_thread.rs:26-28)                  *)
(***************************************************************************)
\* receives the newest request instead of the oldest
BlockingRecvNewest ==
    /\ thread = "running"
    /\ current = None
    /\ chan # <<>>
    /\ current' = Some(chan[Len(chan)])
    /\ chan' = SubSeq(chan, 1, Len(chan) - 1)
    /\ UNCHANGED <<thread, conn, oneshot, responses, accepted, executed, callerVars>>
    /\ UNCHANGED menuVars
    /\ UNCHANGED extVars

\* rx.blocking_recv(): the oldest request in the channel
BlockingRecv ==
    /\ thread = "running"
    /\ current = None
    /\ chan # <<>>
    /\ current' = Some(Head(chan))
    /\ chan' = Tail(chan)
    /\ UNCHANGED <<thread, conn, oneshot, responses, accepted, executed, callerVars>>
    /\ UNCHANGED menuVars
    /\ UNCHANGED extVars

\* a reply sender that is leaked instead of dropped
DropSenderLeaked(ch) == ch

\* dropping a reply sender without sending closes an open reply channel
DropSender(ch) ==
    IF ch.st = "open" THEN [st |-> "tx_dropped"] ELSE ch

QueuedIds == {chan[i].id : i \in 1..Len(chan)}

\* treats a reply that cannot be delivered as fatal (send(..).unwrap())
ExecuteBoxedUnwrapSend ==
    /\ thread = "running"
    /\ current # None
    /\ LET req == current.val
           out == Execute(req, conn)
       IN  IF req.panics \/ oneshot[req.id].st # "open"
           THEN /\ thread' = "panicked"
                /\ chan' = <<>>
                /\ oneshot' = [id \in ReqIds |->
                       IF id = req.id \/ id \in QueuedIds
                       THEN DropSender(oneshot[id]) ELSE oneshot[id]]
                /\ conn' = IF req.panics THEN conn ELSE out.table
                /\ UNCHANGED responses
           ELSE /\ conn' = out.table
                /\ oneshot' = [oneshot EXCEPT ![req.id] =
                       [st |-> "sent", value |-> out.value]]
                /\ responses' = [responses EXCEPT ![req.id] = @ + 1]
                /\ UNCHANGED <<thread, chan>>
    /\ current' = None
    /\ executed' = Append(executed, current.val.id)
    /\ UNCHANGED <<accepted, callerVars, menuVars>>
    /\ UNCHANGED extVars

\* RequestWrapper::execute_boxed (src/src/db/mod.rs:45-50): run the request,
\* then `let _ = self.resp_tx.send(result)`.  A panic in execute unwinds the
\* thread: the request, the connection and the receiver (with everything
\* still queued) are dropped.
ExecuteBoxed ==
    /\ thread = "running"
    /\ current # None
    /\ LET req == current.val
           out == Execute(req, conn)
       IN  IF req.panics
           THEN /\ thread' = "panicked"
                /\ chan' = <<>>
                /\ oneshot' = [id \in ReqIds |->
                       IF id = req.id \/ id \in QueuedIds
                       THEN DropSender(oneshot[id]) ELSE oneshot[id]]
                /\ UNCHANGED <<conn, responses>>
           ELSE /\ conn' = out.table
                /\ IF oneshot[req.id].st = "open"
                   THEN /\ oneshot' = [oneshot EXCEPT ![req.id] =
                               [st |-> "sent", value |-> out.value]]
                        /\ responses' = [responses EXCEPT ![req.id] = @ + 1]
                   ELSE UNCHANGED <<oneshot, responses>>
                /\ UNCHANGED <<thread, chan>>
    /\ current' = None
    /\ executed' = Append(executed, current.val.id)
    /\ UNCHANGED <<accepted, callerVars, menuVars>>
    /\ UNCHANGED extVars

(***************************************************************************)
(* Callers of the storage-actor specification: tasks that only use         *)
(* DbHandle::request                                                        *)
(***************************************************************************)
CallerSend(c, req) == RequestSend(c, req) /\ UNCHANGED <<menuVars, errVars>>
CallerAwait(c) == RequestAwait(c) /\ UNCHANGED <<menuVars, errVars>>
CallerCancel(c) == RequestCancel(c) /\ UNCHANGED <<menuVars, errVars>>

(***************************************************************************)
(* manage / config: the commands that create a session                     *)
(* (src/src/commands/hob.rs:31-67, src/src/commands/role.rs:180-214)       *)
(***************************************************************************)
\* generate_id, the first menu is sent, the session value is built and
\* spawn_timeout starts its timeout task; the session is not in the map yet.
\* generate_id draws at random, so an id may repeat; ids are numbered in the
\* order generate_id first returns them.
CommandSpawn(s, id) ==
    /\ cmdPc[s] = "idle"
    /\ \A earlier \in 1..(s - 1) : cmdPc[earlier] # "idle"
    /\ \A lower \in 1..(id - 1) : \E earlier \in Sessions : menuId[earlier] = lower
    /\ menuId' = [menuId EXCEPT ![s] = id]
    /\ message' = [message EXCEPT ![s] = "active"]
    /\ tpc' = [tpc EXCEPT ![s] = "sleep"]
    /\ cmdPc' = [cmdPc EXCEPT ![s] = "lock_sessions"]
    /\ UNCHANGED <<sessions, regLock, sessLock, page, permit, invalidated, tmenu,
                   hpc, hreq, hsess, dbVars, callerVars>>
    /\ UNCHANGED extVars

\* data_arc.hob_sessions.lock().await
CommandLockSessions(s) ==
    /\ cmdPc[s] = "lock_sessions"
    /\ regLock = NoTask
    /\ regLock' = Cmd(s)
    /\ cmdPc' = [cmdPc EXCEPT ![s] = "insert"]
    /\ UNCHANGED <<sessions, sessLock, menuId, page, permit, message, invalidated,
                   tpc, tmenu, hpc, hreq, hsess, dbVars, callerVars>>
    /\ UNCHANGED extVars

\* hob_sessions.insert(session.menu_id, ...); the guard drops with the block
CommandInsert(s) ==
    /\ cmdPc[s] = "insert"
    /\ sessions' = [sessions EXCEPT ![menuId[s]] = s]
    /\ regLock' = NoTask
    /\ cmdPc' = [cmdPc EXCEPT ![s] = "done"]
    /\ UNCHANGED <<sessLock, menuId, page, permit, message, invalidated,
                   tpc, tmenu, hpc, hreq, hsess, dbVars, callerVars>>
    /\ UNCHANGED extVars

(***************************************************************************)
(* spawn_timeout's task (src/src/shared/menu/timeout.rs:74-92)             *)
(***************************************************************************)
\* select!: tokio::time::sleep(timeout) completes => break
TimeoutElapse(s) ==
    /\ tpc[s] = "sleep"
    /\ tpc' = [tpc EXCEPT ![s] = "lock_sessions"]
    /\ UNCHANGED <<sessions, regLock, sessLock, menuId, page, permit, message,
                   invalidated, cmdPc, tmenu, hpc, hreq, hsess, dbVars, callerVars>>
    /\ UNCHANGED extVars

\* select!: reset_rx.notified() completes => continue, the sleep starts anew
TimeoutReset(s) ==
    /\ tpc[s] = "sleep"
    /\ permit[s]
    /\ permit' = [permit EXCEPT ![s] = FALSE]
    /\ UNCHANGED <<sessions, regLock, sessLock, menuId, page, message,
                   invalidated, cmdPc, tpc, tmenu, hpc, hreq, hsess, dbVars, callerVars>>
    /\ UNCHANGED extVars

\* sessions.lock().await
TimeoutLockSessions(s) ==
    /\ tpc[s] = "lock_sessions"
    /\ regLock = NoTask
    /\ regLock' = Timeout(s)
    /\ tpc' = [tpc EXCEPT ![s] = "remove"]
    /\ UNCHANGED <<sessions, sessLock, menuId, page, permit, message, invalidated,
                   cmdPc, tmenu, hpc, hreq, hsess, dbVars, callerVars>>
    /\ UNCHANGED extVars

\* looks the session up and leaves it in the map
TimeoutRemoveKeepingEntry(s) ==
    /\ tpc[s] = "remove"
    /\ tmenu' = [tmenu EXCEPT ![s] = sessions[menuId[s]]]
    /\ IF sessions[menuId[s]] = 0
       THEN /\ regLock' = NoTask
            /\ tpc' = [tpc EXCEPT ![s] = "done"]
       ELSE /\ tpc' = [tpc EXCEPT ![s] = "lock_menu"]
            /\ UNCHANGED regLock
    /\ UNCHANGED <<sessions, sessLock, menuId, page, permit, message, invalidated,
                   cmdPc, hpc, hreq, hsess, dbVars, callerVars>>
    /\ UNCHANGED extVars

\* if let Some(menu_mutex) = <guard>.remove(&session_id) { ... }: the guard is
\* a temporary of the scrutinee, so it lives to the end of the if-let body;
\* with None there is no body and it is dropped at once
TimeoutRemove(s) ==
    /\ tpc[s] = "remove"
    /\ sessions' = [sessions EXCEPT ![menuId[s]] = 0]
    /\ tmenu' = [tmenu EXCEPT ![s] = sessions[menuId[s]]]
    /\ IF sessions[menuId[s]] = 0
       THEN /\ regLock' = NoTask
            /\ tpc' = [tpc EXCEPT ![s] = "done"]
       ELSE /\ tpc' = [tpc EXCEPT ![s] = "lock_menu"]
            /\ UNCHANGED regLock
    /\ UNCHANGED <<sessLock, menuId, page, permit, message, invalidated,
                   cmdPc, hpc, hreq, hsess, dbVars, callerVars>>
    /\ UNCHANGED extVars

\* let menu = menu_mutex.lock().await
TimeoutLockMenu(s) ==
    /\ tpc[s] = "lock_menu"
    /\ sessLock[tmenu[s]] = NoTask
    /\ sessLock' = [sessLock EXCEPT ![tmenu[s]] = Timeout(s)]
    /\ tpc' = [tpc EXCEPT ![s] = "invalidate"]
    /\ UNCHANGED <<sessions, regLock, menuId, page, permit, message, invalidated,
                   cmdPc, tmenu, hpc, hreq, hsess, dbVars, callerVars>>
    /\ UNCHANGED extVars

\* menu.invalidate(http).await (src/src/hob/menu.rs:34-62): fetch the message
\* and edit it with its controls disabled; ok says whether the two calls
\* succeeded.  Then the session guard and the registry guard are dropped.
TimeoutInvalidate(s, ok) ==
    /\ tpc[s] = "invalidate"
    /\ invalidated' = [invalidated EXCEPT ![tmenu[s]] = @ + 1]
    /\ message' = [message EXCEPT ![tmenu[s]] = IF ok THEN "disabled" ELSE @]
    /\ sessLock' = [sessLock EXCEPT ![tmenu[s]] = NoTask]
    /\ regLock' = NoTask
    /\ tpc' = [tpc EXCEPT ![s] = "done"]
    /\ UNCHANGED <<sessions, menuId, page, permit, cmdPc, tmenu, hpc, hreq, hsess,
                   dbVars, callerVars>>
    /\ UNCHANGED extVars

(***************************************************************************)
(* handle_interaction (src/src/hob/interaction.rs:22-128,                  *)
(* src/src/role/interaction/config.rs:30-137)                              *)
(***************************************************************************)
HandlerDone == {"done_ok", "done_expired", "done_denied", "done_error"}

\* an anyhow::Error, by the type it downcasts to and its message
UserError(msg) == [type |-> "UserError", msg |-> msg]
OtherError(type) == [type |-> type, msg |-> "internal"]

\* Option::context(c): the value, or an error that downcasts to c's type
OptionContext(found, context) == IF found THEN [ok |-> TRUE] ELSE [ok |-> FALSE, err |-> context]

NoReport == [container |-> "none"]

\* takes every error for an internal one
EventHandlerErrorInternal(error) ==
    [container |-> "internal_error", log |-> "Failed to handle event", error |-> error]

\* event_handler_error (src/src/error.rs:58-112): the log line and the
\* container sent to the interaction's user
EventHandlerError(error) ==
    IF error.type = "UserError"
    THEN [container |-> "user_error", log |-> "User error while handling event",
          error |-> error]
    ELSE [container |-> "internal_error", log |-> "Failed to handle event",
          error |-> error]

\* Handler::dispatch (src/src/main.rs:147-214): an Err of handle_interaction
\* goes to event_handler_error
Dispatch(h, error) == hreport' = [hreport EXCEPT ![h] = EventHandlerError(error)]


\* an interaction arrives with the menu id of its custom_id
InteractionArrives(h, id) ==
    /\ hpc[h] = "idle"
    /\ \A earlier \in 1..(h - 1) : hpc[earlier] # "idle"
    /\ hreq' = [hreq EXCEPT ![h] = Some(id)]
    /\ hpc' = [hpc EXCEPT ![h] = "lock_sessions"]
    /\ UNCHANGED <<sessions, regLock, sessLock, menuId, page, permit, message,
                   invalidated, cmdPc, tpc, tmenu, hsess, dbVars, callerVars>>
    /\ UNCHANGED extVars

\* ctx.data().hob_sessions.lock().await
HandlerLockSessions(h) ==
    /\ hpc[h] = "lock_sessions"
    /\ regLock = NoTask
    /\ regLock' = Handler(h)
    /\ hpc' = [hpc EXCEPT ![h] = "get"]
    /\ UNCHANGED <<sessions, sessLock, menuId, page, permit, message, invalidated,
                   cmdPc, tpc, tmenu, hreq, hsess, dbVars, callerVars>>
    /\ UNCHANGED extVars

\* Arc::clone(<guard>.get(&menu_id).context("This menu has expired!")?): the
\* guard is dropped at the end of the let statement
HandlerGet(h) ==
    /\ hpc[h] = "get"
    /\ regLock' = NoTask
    /\ hsess' = [hsess EXCEPT ![h] = sessions[hreq[h].val]]
    /\ LET got == OptionContext(sessions[hreq[h].val] # 0,
                                UserError("This menu has expired!")) IN
       IF ~got.ok
       THEN /\ hpc' = [hpc EXCEPT ![h] = "done_expired"]
            /\ hreq' = [hreq EXCEPT ![h] = None]
            /\ Dispatch(h, got.err)
       ELSE /\ hpc' = [hpc EXCEPT ![h] = "lock_session"]
            /\ UNCHANGED <<hreq, hreport>>
    /\ UNCHANGED <<sessions, sessLock, menuId, page, permit, message, invalidated,
                   cmdPc, tpc, tmenu, dbVars, callerVars>>
    /\ UNCHANGED <<cacheVars, navVars, bootVars, execVars, auxVars>>

\* goes on without waiting for the session lock to be free
HandlerLockSessionNoWait(h) ==
    /\ hpc[h] = "lock_session"
    /\ sessLock' = [sessLock EXCEPT ![hsess[h]] = Handler(h)]
    /\ hpc' = [hpc EXCEPT ![h] = "begin"]
    /\ UNCHANGED <<sessions, regLock, menuId, page, permit, message, invalidated,
                   cmdPc, tpc, tmenu, hreq, hsess, dbVars, callerVars>>
    /\ UNCHANGED extVars

\* let mut session = session_mutex.lock().await
HandlerLockSession(h) ==
    /\ hpc[h] = "lock_session"
    /\ sessLock[hsess[h]] = NoTask
    /\ sessLock' = [sessLock EXCEPT ![hsess[h]] = Handler(h)]
    /\ hpc' = [hpc EXCEPT ![h] = "begin"]
    /\ UNCHANGED <<sessions, regLock, menuId, page, permit, message, invalidated,
                   cmdPc, tpc, tmenu, hreq, hsess, dbVars, callerVars>>
    /\ UNCHANGED extVars

\* the owner check of a component interaction (kind says component or modal,
\* owner whether the session's owner sent it); then
\* timeout_reset.notify_one() and the state handler up to its first await:
\* goto_page next sets session_state.page
\* (src/src/hob/interaction/select_entry.rs:33-38)
HandlerBegin(h, kind, owner) ==
    /\ hpc[h] = "begin"
    /\ IF kind = "component" /\ ~owner
       THEN /\ hpc' = [hpc EXCEPT ![h] = "deny"]
            /\ UNCHANGED <<permit, page>>
       ELSE /\ permit' = [permit EXCEPT ![hsess[h]] = TRUE]
            /\ page' = [page EXCEPT ![hsess[h]] = @ + 1]
            /\ hpc' = [hpc EXCEPT ![h] = "request"]
    /\ hsender' = [hsender EXCEPT ![h] = IF owner THEN "owner" ELSE "other"]
    /\ UNCHANGED <<sessions, regLock, sessLock, menuId, message, invalidated,
                   cmdPc, tpc, tmenu, hreq, hsess, dbVars, callerVars>>
    /\ UNCHANGED <<cacheVars, navVars, errVars, bootVars, execVars, chunkArgs, chunk, splash, linkLast>>

\* component_interaction.create_response(...).await?; return Ok(()): the
\* session guard is dropped
HandlerDeny(h) ==
    /\ hpc[h] = "deny"
    /\ sessLock' = [sessLock EXCEPT ![hsess[h]] = NoTask]
    /\ hpc' = [hpc EXCEPT ![h] = "done_denied"]
    /\ hreq' = [hreq EXCEPT ![h] = None]
    /\ hsess' = [hsess EXCEPT ![h] = 0]
    /\ UNCHANGED <<sessions, regLock, menuId, page, permit, message, invalidated,
                   cmdPc, tpc, tmenu, dbVars, callerVars>>
    /\ UNCHANGED extVars

\* the request session_state.generate(db, menu_id) sends
HandlerRequests(h) ==
    [id : {<<HandlerCaller(h), 1>>}, kind : {"get"}, discord : {0}, uuid : {0},
     panics : BOOLEAN]

\* generate(db, menu_id).await?: the request is sent; a send error returns
\* from handle_interaction and drops the session guard
HandlerRequest(h) ==
    /\ hpc[h] = "request"
    /\ \E req \in HandlerRequests(h) : RequestSend(HandlerCaller(h), req)
    /\ IF thread = "panicked"
       THEN /\ sessLock' = [sessLock EXCEPT ![hsess[h]] = NoTask]
            /\ hpc' = [hpc EXCEPT ![h] = "done_error"]
            /\ hreq' = [hreq EXCEPT ![h] = None]
            /\ hsess' = [hsess EXCEPT ![h] = 0]
            /\ Dispatch(h, OtherError("SendError"))
       ELSE /\ hpc' = [hpc EXCEPT ![h] = "await"]
            /\ UNCHANGED <<sessLock, hreq, hsess, hreport>>
    /\ UNCHANGED <<sessions, regLock, menuId, page, permit, message, invalidated,
                   cmdPc, tpc, tmenu>>
    /\ UNCHANGED <<cacheVars, navVars, bootVars, execVars, auxVars>>

\* generate(db, menu_id).await?: the reply arrives; a RecvError returns from
\* handle_interaction and drops the session guard
HandlerAwait(h) ==
    /\ hpc[h] = "await"
    /\ RequestAwait(HandlerCaller(h))
    /\ IF oneshot[<<HandlerCaller(h), 1>>].st = "sent"
       THEN /\ hpc' = [hpc EXCEPT ![h] = "edit"]
            /\ UNCHANGED <<sessLock, hreq, hsess, hreport>>
       ELSE /\ sessLock' = [sessLock EXCEPT ![hsess[h]] = NoTask]
            /\ hpc' = [hpc EXCEPT ![h] = "done_error"]
            /\ hreq' = [hreq EXCEPT ![h] = None]
            /\ hsess' = [hsess EXCEPT ![h] = 0]
            /\ Dispatch(h, OtherError("RecvError"))
    /\ UNCHANGED <<sessions, regLock, menuId, page, permit, message, invalidated,
                   cmdPc, tpc, tmenu>>
    /\ UNCHANGED <<cacheVars, navVars, bootVars, execVars, auxVars>>

\* after the edit, takes the registry lock to remove its session from the map
\* while it still holds the session guard
HandlerEditThenClose(h, ok) ==
    /\ hpc[h] = "edit"
    /\ regLock = NoTask
    /\ sessions' = [sessions EXCEPT ![menuId[hsess[h]]] = 0]
    /\ message' = [message EXCEPT ![hsess[h]] = IF ok THEN "active" ELSE @]
    /\ sessLock' = [sessLock EXCEPT ![hsess[h]] = NoTask]
    /\ hpc' = [hpc EXCEPT ![h] = IF ok THEN "done_ok" ELSE "done_error"]
    /\ hreq' = [hreq EXCEPT ![h] = None]
    /\ hsess' = [hsess EXCEPT ![h] = 0]
    /\ UNCHANGED <<regLock, menuId, page, permit, invalidated,
                   cmdPc, tpc, tmenu, dbVars, callerVars>>
    /\ IF ok THEN UNCHANGED hreport ELSE Dispatch(h, OtherError("serenity::Error"))
    /\ UNCHANGED <<cacheVars, navVars, bootVars, execVars, auxVars>>

\* create_response(UpdateMessage(menu)).await? / edit_message(...).await?: the
\* message shows the new menu if the call succeeds; the function returns and
\* the session guard is dropped
HandlerEdit(h, ok) ==
    /\ hpc[h] = "edit"
    /\ message' = [message EXCEPT ![hsess[h]] = IF ok THEN "active" ELSE @]
    /\ sessLock' = [sessLock EXCEPT ![hsess[h]] = NoTask]
    /\ hpc' = [hpc EXCEPT ![h] = IF ok THEN "done_ok" ELSE "done_error"]
    /\ hreq' = [hreq EXCEPT ![h] = None]
    /\ hsess' = [hsess EXCEPT ![h] = 0]
    /\ UNCHANGED <<sessions, regLock, menuId, page, permit, invalidated,
                   cmdPc, tpc, tmenu, dbVars, callerVars>>
    /\ IF ok THEN UNCHANGED hreport ELSE Dispatch(h, OtherError("serenity::Error"))
    /\ UNCHANGED <<cacheVars, navVars, bootVars, execVars, auxVars>>

(***************************************************************************)
(* The bingo-epoch cache: requests of src/src/role/db/cache/read.rs and    *)
(* write.rs, executed by the storage actor one at a time.  A Bingo is      *)
(* modelled by its id: GetBingoData (src/src/shared/db/read.rs:9-52)       *)
(* yields a Bingo whose get_id() is the id asked for, in both its branches.*)
(* A row is [uuid, stamp, val]; uuid is the PRIMARY KEY of every table.    *)
(***************************************************************************)
\* bingos the API reports one after the other
MaxBingo == 2
\* players whose roles are requested
MaxPlayers == 1
\* concurrent tasks that update the current bingo
MaxRuns == 2
\* those of them that are runs of player_roles
MaxRoleRuns == 1
\* bingo ranks a profile may show (the code knows 0..5)
MaxRank == 1

BingoIds == 1..MaxBingo
Players == 1..MaxPlayers
Runs == 1..MaxRuns
RoleRuns == 1..MaxRoleRuns
Ranks == 0..MaxRank

RowsOf(table, uuid) == {row \in table : row.uuid = uuid}

\* GetCurrentBingo: the stored current bingo, None without a row
GetCurrentBingo(stored) == IF stored = 0 THEN None ELSE Some(stored)

\* .unwrap_or_default() of the result: without a row the id is 0
UnwrapOrDefault(opt) == IF opt.some THEN opt.val ELSE 0

\* the value written to updated_after_bingo for the Bingo read by
\* GetCurrentBingo (params![.., current_bingo, ..])
BingoToSql(bingo) == bingo

\* takes a row written during the current bingo for stale as well
CachedCompletionsStaleAtEqual(table, uuid, stored) ==
    LET cached == RowsOf(table, uuid)
        current_bingo == UnwrapOrDefault(GetCurrentBingo(stored))
    IN  IF cached = {} THEN [table |-> table, value |-> None]
        ELSE LET row == CHOOSE r \in cached : TRUE IN
             IF current_bingo >= row.stamp
             THEN [table |-> table \ cached, value |-> None]
             ELSE [table |-> table, value |-> Some(row.val)]

\* CachedCompletions::execute
CachedCompletions(table, uuid, stored) ==
    LET cached == RowsOf(table, uuid)
        current_bingo == UnwrapOrDefault(GetCurrentBingo(stored))
    IN  IF cached = {} THEN [table |-> table, value |-> None]
        ELSE LET row == CHOOSE r \in cached : TRUE IN
             IF current_bingo > row.stamp
             THEN [table |-> table \ cached, value |-> None]
             ELSE [table |-> table, value |-> Some(row.val)]

\* CachedBingoRank::execute
CachedBingoRank(table, uuid, stored) ==
    LET cached == RowsOf(table, uuid)
        current_bingo == UnwrapOrDefault(GetCurrentBingo(stored))
    IN  IF cached = {} THEN [table |-> table, value |-> None]
        ELSE LET row == CHOOSE r \in cached : TRUE IN
             IF current_bingo > row.stamp
             THEN [table |-> table \ cached, value |-> None]
             ELSE [table |-> table, value |-> Some(row.val)]

\* deletes a stale row whatever it says
CachedImmortalNoLatch(table, uuid, stored) ==
    LET cached == RowsOf(table, uuid)
        current_bingo == UnwrapOrDefault(GetCurrentBingo(stored))
    IN  IF cached = {} THEN [table |-> table, value |-> None]
        ELSE LET row == CHOOSE r \in cached : TRUE IN
             IF current_bingo > row.stamp
             THEN [table |-> table \ cached, value |-> None]
             ELSE [table |-> table, value |-> Some(row.val)]

\* CachedImmortal::execute: a row saying true is never stale
CachedImmortal(table, uuid, stored) ==
    LET cached == RowsOf(table, uuid)
        current_bingo == UnwrapOrDefault(GetCurrentBingo(stored))
    IN  IF cached = {} THEN [table |-> table, value |-> None]
        ELSE LET row == CHOOSE r \in cached : TRUE IN
             IF current_bingo > row.stamp /\ ~row.val
             THEN [table |-> table \ cached, value |-> None]
             ELSE [table |-> table, value |-> Some(row.val)]

\* INSERT without OR REPLACE that keeps the player's earlier row
InsertKeepingOld(table, uuid, stored, val) ==
    table \cup {[uuid |-> uuid,
                 stamp |-> BingoToSql(UnwrapOrDefault(GetCurrentBingo(stored))),
                 val |-> val]}

\* INSERT OR REPLACE INTO <cache table> (uuid, updated_after_bingo, <fact>)
\* with the current bingo read in the same execute: CacheCompletions,
\* CacheBingoRank and CacheImmortal differ in the table and the fact only
InsertOrReplace(table, uuid, stored, val) ==
    (table \ RowsOf(table, uuid))
        \cup {[uuid |-> uuid,
               stamp |-> BingoToSql(UnwrapOrDefault(GetCurrentBingo(stored))),
               val |-> val]}

CacheCompletions(table, uuid, stored, completions) ==
    InsertOrReplace(table, uuid, stored, completions)
CacheBingoRank(table, uuid, stored, rank) ==
    InsertOrReplace(table, uuid, stored, rank)
CacheImmortal(table, uuid, stored, has_achieved) ==
    InsertOrReplace(table, uuid, stored, has_achieved)

(***************************************************************************)
(* The API and the clock                                                   *)
(***************************************************************************)
NoLookup == [kind |-> "none"]
NoInsert == [kind |-> "none"]
NoLocals == [player |-> 0]

CacheOnly == UNCHANGED <<dbVars, callerVars, menuVars, navVars, errVars, bootVars, execVars, auxVars>>

\* the clock passes current_bingo_ends of the bingo the API reports
ClockPassesEnd ==
    /\ ~apiEnded
    /\ apiEnded' = TRUE
    /\ UNCHANGED <<apiBingo, apiDone, curBingo, complCache, rankCache, immCache, rpc, rloc>>
    /\ lookup' = NoLookup
    /\ insert' = NoInsert
    /\ CacheOnly

\* the next bingo starts: the API reports it as current
ApiAdvance ==
    /\ apiEnded
    /\ apiBingo < MaxBingo
    /\ apiBingo' = apiBingo + 1
    /\ apiEnded' = FALSE
    /\ UNCHANGED <<apiDone, curBingo, complCache, rankCache, immCache, rpc, rloc>>
    /\ lookup' = NoLookup
    /\ insert' = NoInsert
    /\ CacheOnly

\* a player completes the bingo that is running
PlayerCompletes(p) ==
    /\ ~apiEnded
    /\ apiBingo \notin apiDone[p]
    /\ apiDone' = [apiDone EXCEPT ![p] = @ \cup {apiBingo}]
    /\ UNCHANGED <<apiBingo, apiEnded, curBingo, complCache, rankCache, immCache, rpc, rloc>>
    /\ lookup' = NoLookup
    /\ insert' = NoInsert
    /\ CacheOnly

(***************************************************************************)
(* player_roles (src/src/role/request.rs:289-430), one action per await.   *)
(* Each db.request(..).await is the execution of that request by the       *)
(* storage actor; requests of different runs interleave in any order.      *)
(***************************************************************************)
\* the run returns (Ok or Err): its locals are gone
Return(t) ==
    /\ rpc' = [rpc EXCEPT ![t] = "idle"]
    /\ rloc' = [rloc EXCEPT ![t] = NoLocals]

\* api.update_current_bingo: get_current_bingo_data queries the API
\* (src/src/hypixel_api/hypixel.rs:60-83); an API error returns Err
RolesStart(t, p, ok) ==
    /\ t \in RoleRuns
    /\ rpc[t] = "idle"
    /\ IF ok
       THEN /\ rpc' = [rpc EXCEPT ![t] = "set_current_bingo"]
            /\ rloc' = [rloc EXCEPT ![t] =
                   [player |-> p, cur |-> apiBingo, ended |-> FALSE, compl |-> {},
                    hit |-> FALSE, failed |-> FALSE, rank |-> None, imm |-> None,
                    data |-> None]]
       ELSE UNCHANGED <<rpc, rloc>>
    /\ UNCHANGED <<apiBingo, apiEnded, apiDone, curBingo, complCache, rankCache, immCache>>
    /\ lookup' = NoLookup
    /\ insert' = NoInsert
    /\ CacheOnly

\* another caller of api.update_current_bingo starts
\* (src/src/splashlist/mod.rs:170, src/src/splash_reminder/event.rs:151-153,
\* or a further player_roles run): it has no player
UpdateStart(t, ok) ==
    /\ rpc[t] = "idle"
    /\ IF ok
       THEN /\ rpc' = [rpc EXCEPT ![t] = "set_current_bingo"]
            /\ rloc' = [rloc EXCEPT ![t] = [player |-> 0, cur |-> apiBingo]]
       ELSE UNCHANGED <<rpc, rloc>>
    /\ UNCHANGED <<apiBingo, apiEnded, apiDone, curBingo, complCache, rankCache, immCache>>
    /\ lookup' = NoLookup
    /\ insert' = NoInsert
    /\ CacheOnly

\* SetCurrentBingo::execute (src/src/shared/db/write.rs:55-69): the row's
\* current_bingo becomes bingo_id
SetCurrentBingo(stored, bingo_id) == bingo_id

\* db.request(SetCurrentBingo {..}) and db.request(AddBingoMapping {..})
\* (hypixel.rs:85-96); the latter only touches bingo_kind_id_map
RolesSetCurrentBingo(t) ==
    /\ rpc[t] = "set_current_bingo"
    /\ curBingo' = SetCurrentBingo(curBingo, rloc[t].cur)
    /\ IF rloc[t].player = 0
       THEN Return(t)
       ELSE /\ rpc' = [rpc EXCEPT ![t] = "clock"]
            /\ UNCHANGED rloc
    /\ UNCHANGED <<apiBingo, apiEnded, apiDone, complCache, rankCache, immCache>>
    /\ lookup' = NoLookup
    /\ insert' = NoInsert
    /\ CacheOnly

\* let bingo_ended = Utc::now().timestamp() > bingo_end (request.rs:295): the
\* end of the bingo this run fetched has passed if the API already reports
\* a later bingo or the clock has passed the end of the one it reports
RolesClock(t) ==
    /\ rpc[t] = "clock"
    /\ rloc' = [rloc EXCEPT ![t].ended = (rloc[t].cur < apiBingo) \/ apiEnded]
    /\ rpc' = [rpc EXCEPT ![t] = "cached_completions"]
    /\ UNCHANGED <<apiBingo, apiEnded, apiDone, curBingo, complCache, rankCache, immCache>>
    /\ lookup' = NoLookup
    /\ insert' = NoInsert
    /\ CacheOnly

\* what a lookup saw and did, for the properties
Lookup(kind, uuid, table, out) ==
    [kind |-> kind, uuid |-> uuid, current |-> curBingo,
     before |-> RowsOf(table, uuid), value |-> out.value,
     after |-> RowsOf(out.table, uuid),
     live |-> curBingo = apiBingo /\ ~apiEnded]

\* db.request(CachedCompletions {..}) (request.rs:301-305)
RolesCachedCompletions(t) ==
    LET out == CachedCompletions(complCache, rloc[t].player, curBingo) IN
    /\ rpc[t] = "cached_completions"
    /\ complCache' = out.table
    /\ lookup' = Lookup("completions", rloc[t].player, complCache, out)
    /\ IF out.value.some
       THEN /\ rloc' = [rloc EXCEPT ![t].compl = out.value.val, ![t].hit = TRUE]
            /\ rpc' = [rpc EXCEPT ![t] = "cached_bingo_rank"]
       ELSE /\ rpc' = [rpc EXCEPT ![t] = "bingo_completions"]
            /\ UNCHANGED rloc
    /\ UNCHANGED <<apiBingo, apiEnded, apiDone, curBingo, rankCache, immCache>>
    /\ insert' = NoInsert
    /\ CacheOnly

\* the condition of request.rs:316
ShouldCacheCompletions(loc, completions) ==
    loc.ended \/ loc.cur \in completions

\* caches whatever was fetched
RolesBingoCompletionsAlwaysCache(t, ok) ==
    LET completions == IF ok THEN apiDone[rloc[t].player] ELSE {} IN
    /\ rpc[t] = "bingo_completions"
    /\ rloc' = [rloc EXCEPT ![t].compl = completions, ![t].failed = ~ok]
    /\ rpc' = [rpc EXCEPT ![t] = "cache_completions"]
    /\ UNCHANGED <<apiBingo, apiEnded, apiDone, curBingo, complCache, rankCache, immCache>>
    /\ lookup' = NoLookup
    /\ insert' = NoInsert
    /\ CacheOnly

\* api.bingo_completions(uuid).await? (request.rs:315): bingo_completions
\* (hypixel.rs:136-162) answers a failed query with Ok(Vec::new()); then the
\* test of request.rs:316
RolesBingoCompletions(t, ok) ==
    LET completions == IF ok THEN apiDone[rloc[t].player] ELSE {} IN
    /\ rpc[t] = "bingo_completions"
    /\ rloc' = [rloc EXCEPT ![t].compl = completions, ![t].failed = ~ok]
    /\ rpc' = [rpc EXCEPT ![t] =
           IF ShouldCacheCompletions(rloc[t], completions)
           THEN "cache_completions" ELSE "cached_bingo_rank"]
    /\ UNCHANGED <<apiBingo, apiEnded, apiDone, curBingo, complCache, rankCache, immCache>>
    /\ lookup' = NoLookup
    /\ insert' = NoInsert
    /\ CacheOnly

\* what an insert did and on what grounds, for the properties
Insert(kind, t, table) ==
    [kind |-> kind, uuid |-> rloc[t].player, current |-> curBingo,
     rows |-> RowsOf(table, rloc[t].player),
     cur |-> rloc[t].cur, ended |-> rloc[t].ended, failed |-> rloc[t].failed]

\* db.request(CacheCompletions {..}) (request.rs:317-321)
RolesCacheCompletions(t) ==
    LET table == CacheCompletions(complCache, rloc[t].player, curBingo, rloc[t].compl) IN
    /\ rpc[t] = "cache_completions"
    /\ complCache' = table
    /\ insert' = Insert("completions", t, table)
    /\ rpc' = [rpc EXCEPT ![t] = "cached_bingo_rank"]
    /\ UNCHANGED <<apiBingo, apiEnded, apiDone, curBingo, rankCache, immCache, rloc>>
    /\ lookup' = NoLookup
    /\ CacheOnly

\* db.request(CachedBingoRank {..}) (request.rs:365-369)
RolesCachedBingoRank(t) ==
    LET out == CachedBingoRank(rankCache, rloc[t].player, curBingo) IN
    /\ rpc[t] = "cached_bingo_rank"
    /\ rankCache' = out.table
    /\ lookup' = Lookup("rank", rloc[t].player, rankCache, out)
    /\ rloc' = [rloc EXCEPT ![t].rank = out.value]
    /\ rpc' = [rpc EXCEPT ![t] = "cached_immortal"]
    /\ UNCHANGED <<apiBingo, apiEnded, apiDone, curBingo, complCache, immCache>>
    /\ insert' = NoInsert
    /\ CacheOnly

\* db.request(CachedImmortal {..}) (request.rs:370-378): with both facts
\* cached the run is done (api.username aside)
RolesCachedImmortal(t) ==
    LET out == CachedImmortal(immCache, rloc[t].player, curBingo) IN
    /\ rpc[t] = "cached_immortal"
    /\ immCache' = out.table
    /\ lookup' = Lookup("immortal", rloc[t].player, immCache, out)
    /\ IF rloc[t].rank.some /\ out.value.some
       THEN Return(t)
       ELSE /\ rloc' = [rloc EXCEPT ![t].imm = out.value]
            /\ rpc' = [rpc EXCEPT ![t] = "bingo_profile_data"]
    /\ UNCHANGED <<apiBingo, apiEnded, apiDone, curBingo, complCache, rankCache>>
    /\ insert' = NoInsert
    /\ CacheOnly

\* the profiles the API may show: none, or created_during, bingo_rank, has_deaths
Profiles ==
    {None} \cup {Some([created_during |-> c, bingo_rank |-> r, has_deaths |-> d]) :
                    c \in BingoIds, r \in Ranks, d \in BOOLEAN}

\* the test of request.rs:405
ShouldCacheBingoRank(loc, data) ==
    loc.ended \/ data.created_during = loc.cur

\* api.bingo_profile_data(uuid).await? (request.rs:381-411) up to the next
\* request: an API error returns Err, no profile returns (0, false)
RolesBingoProfileData(t, ok, profile) ==
    /\ rpc[t] = "bingo_profile_data"
    /\ IF ~ok \/ ~profile.some
       THEN Return(t)
       ELSE LET data == profile.val
                current_immortal ==
                    ~data.has_deaths /\ data.created_during \in rloc[t].compl
                current_bingo_completed == rloc[t].cur \in rloc[t].compl
            IN  IF ~rloc[t].imm.some /\ (rloc[t].ended \/ current_bingo_completed)
                THEN /\ rloc' = [rloc EXCEPT ![t].imm = Some(current_immortal),
                                             ![t].data = Some(data)]
                     /\ rpc' = [rpc EXCEPT ![t] = "cache_immortal"]
                ELSE IF ShouldCacheBingoRank(rloc[t], data)
                THEN /\ rloc' = [rloc EXCEPT ![t].data = Some(data)]
                     /\ rpc' = [rpc EXCEPT ![t] = "cache_bingo_rank"]
                ELSE Return(t)
    /\ UNCHANGED <<apiBingo, apiEnded, apiDone, curBingo, complCache, rankCache, immCache>>
    /\ lookup' = NoLookup
    /\ insert' = NoInsert
    /\ CacheOnly

\* db.request(CacheImmortal {..}) (request.rs:395-399), then the test of
\* request.rs:405
RolesCacheImmortal(t) ==
    LET table == CacheImmortal(immCache, rloc[t].player, curBingo, rloc[t].imm.val) IN
    /\ rpc[t] = "cache_immortal"
    /\ immCache' = table
    /\ insert' = Insert("immortal", t, table)
    /\ IF ShouldCacheBingoRank(rloc[t], rloc[t].data.val)
       THEN /\ rpc' = [rpc EXCEPT ![t] = "cache_bingo_rank"]
            /\ UNCHANGED rloc
       ELSE Return(t)
    /\ UNCHANGED <<apiBingo, apiEnded, apiDone, curBingo, complCache, rankCache>>
    /\ lookup' = NoLookup
    /\ CacheOnly

\* db.request(CacheBingoRank {..}) (request.rs:406-410)
RolesCacheBingoRank(t) ==
    LET table == CacheBingoRank(rankCache, rloc[t].player, curBingo,
                                rloc[t].data.val.bingo_rank) IN
    /\ rpc[t] = "cache_bingo_rank"
    /\ rankCache' = table
    /\ insert' = Insert("rank", t, table)
    /\ Return(t)
    /\ UNCHANGED <<apiBingo, apiEnded, apiDone, curBingo, complCache, immCache>>
    /\ lookup' = NoLookup
    /\ CacheOnly

(***************************************************************************)
(* Navigation of the HoB edit menu: HobEditState                           *)
(* (src/src/hob/menu.rs:69-153) and the handlers of                        *)
(* src/src/hob/interaction/*.rs.  A handler runs with the session's mutex  *)
(* held, so each is one action; its fallible awaits are the choices of its *)
(* ok / fail argument.  The database is seen through the number of entries *)
(* a listing returns and the number of subentries of the viewed entry.     *)
(***************************************************************************)
\* entries the database may hold
MaxEntries == 7
\* subentries an entry may hold
MaxSubentries == 6
\* pages a session's page counter may reach
MaxPage == 2
\* search queries a user may submit
MaxQuery == 1
\* ids of entries and of subentries
MaxEntryId == 1

PAGE_SIZE == 6
SUBENTRIES_PAGE_SIZE == 5

Queries == 1..MaxQuery
EntryIds == 1..MaxEntryId

Min(a, b) == IF a <= b THEN a ELSE b

SelectEntryState(pg, search_query) ==
    [variant |-> "SelectEntry", page |-> pg, search_query |-> search_query,
     id |-> 0, entry_id |-> 0, referrer_state |-> None]

ViewEntryState(id, pg) ==
    [variant |-> "ViewEntry", page |-> pg, search_query |-> None,
     id |-> id, entry_id |-> 0, referrer_state |-> None]

ViewSubentryState(id, entry_id) ==
    [variant |-> "ViewSubentry", page |-> 0, search_query |-> None,
     id |-> id, entry_id |-> entry_id, referrer_state |-> None]

\* BacktrackState::take_referrer_or: the referrer, or the default
TakeReferrerOr(state, default) ==
    IF state.referrer_state.some THEN state.referrer_state.val ELSE default

\* what take_referrer leaves in the state it is called on
ReferrerTaken(state) == [state EXCEPT !.referrer_state = None]

\* replaces the state and forgets where it came from
UpdateStateNoReferrer(self, new_state) == new_state

\* Backtrack::update_state: the replaced state becomes the referrer of a
\* ViewEntry or ViewSubentry state
UpdateState(self, new_state) ==
    IF new_state.variant \in {"ViewEntry", "ViewSubentry"}
    THEN [new_state EXCEPT !.referrer_state = Some(self)]
    ELSE new_state

\* drops the referrer of the state it stores
ApplyChangeShallow(state, new_state, update_referrer_state) ==
    IF update_referrer_state THEN UpdateState(ReferrerTaken(state), new_state)
    ELSE new_state

\* component() / modal() of src/src/hob/interaction.rs:148-154
ApplyChange(state, new_state, update_referrer_state) ==
    IF update_referrer_state THEN UpdateState(state, new_state) ELSE new_state

\* PaginatedChunk::new(length, page, page_size).page
PaginatedChunkPage(length, pg, page_size) ==
    LET total_pages == (length + page_size - 1) \div page_size
        clamped_page == IF total_pages = 0 THEN 0 ELSE Min(pg, total_pages - 1)
        start_index == clamped_page * page_size
    IN  start_index \div page_size

\* the entries a listing returns: search_entries_with_content(query) or
\* get_all_hob_entries()
Listed(entries, search_query) ==
    IF search_query.some THEN entries.found[search_query.val] ELSE entries.all

\* whether the database holds what generate asks for
CanGenerate(state, entries, subs) ==
    CASE state.variant = "SelectEntry" -> TRUE
      [] state.variant = "ViewEntry" -> entries.all >= 1
      [] state.variant = "ViewSubentry" -> entries.all >= 1 /\ subs >= 1

\* shows the page asked for, whether it exists or not
GenerateUnclamped(state, entries, subs) == state

\* GenerateMenu::generate, as far as it changes the state: the page is set
\* to the page of the chunk shown; entries and subs are what the database
\* holds when generate runs
Generate(state, entries, subs) ==
    CASE state.variant = "SelectEntry" ->
            [state EXCEPT !.page =
                PaginatedChunkPage(Listed(entries, state.search_query), state.page, PAGE_SIZE)]
      [] state.variant = "ViewEntry" ->
            [state EXCEPT !.page =
                PaginatedChunkPage(subs, state.page, SUBENTRIES_PAGE_SIZE)]
      [] state.variant = "ViewSubentry" -> state

\* "next" / "prev" / anything else of goto_page
GotoPage(pg, dir) ==
    CASE dir = "next" -> pg + 1
      [] dir = "prev" -> IF pg = 0 THEN 0 ELSE pg - 1
      [] OTHER -> 0

Dirs == {"next", "prev", "first"}

\* scenario counts the steps made of the sequence goto_page next (from
\* browsing page 0 without filter), view_entry, back, each having succeeded
\* and no other interaction having come between
NoNav == [kind |-> "none", ok |-> TRUE, chained |-> FALSE, scenario |-> 0]

\* the interaction before this one was a Back that succeeded, invoked in a
\* sub-entry state reached by two drill-downs (its referrer had a referrer)
AfterChainedBack ==
    /\ navLast.kind = "back" /\ navLast.ok
    /\ navBefore.variant = "ViewSubentry"
    /\ navBefore.referrer_state.some
    /\ navBefore.referrer_state.val.referrer_state.some

Nav(kind, ok) ==
    [kind |-> kind, ok |-> ok, chained |-> AfterChainedBack, scenario |-> 0]

\* the handler that ran was the next step of the sequence, or not
Scenario(kind, ok, step) ==
    [Nav(kind, ok) EXCEPT !.scenario = IF ok /\ step THEN navLast.scenario + 1 ELSE 0]

NavOnly == UNCHANGED <<dbVars, callerVars, menuVars, cacheVars, errVars, bootVars, execVars, auxVars>>

\* the database changes without this session: no handler ran
NoHandler ==
    /\ navLast' = [NoNav EXCEPT !.scenario =
                      IF navLast.scenario \in {1, 2} THEN navLast.scenario ELSE 0]
    /\ navBefore' = navState
    /\ UNCHANGED navState

\* an entry is created (by another session); matched are the queries it suits
EntryCreated(matched) ==
    /\ hobEntries.all < MaxEntries
    /\ hobEntries' = [all |-> hobEntries.all + 1,
                      found |-> [q \in Queries |->
                          IF q \in matched THEN hobEntries.found[q] + 1
                          ELSE hobEntries.found[q]]]
    /\ UNCHANGED subentries
    /\ NoHandler
    /\ NavOnly

\* what DeleteHobEntry leaves of the listings when it removes an entry that
\* the queries in matched found
EntriesWithout(matched) ==
    [all |-> hobEntries.all - 1,
     found |-> [q \in Queries |->
         IF q \in matched THEN hobEntries.found[q] - 1 ELSE hobEntries.found[q]]]

\* the listings allow an entry found by exactly the queries in matched
Removable(matched) ==
    /\ hobEntries.all >= 1
    /\ \A q \in Queries :
          IF q \in matched THEN hobEntries.found[q] >= 1
          ELSE hobEntries.found[q] <= hobEntries.all - 1

\* DeleteHobEntry::execute (src/src/hob/db/write.rs:214-240): Ok also when
\* the entry is gone already
AfterDelete(matched) ==
    IF Removable(matched) THEN EntriesWithout(matched) ELSE hobEntries

\* an entry is deleted by another session
EntryDeleted(matched) ==
    /\ Removable(matched)
    /\ hobEntries' = EntriesWithout(matched)
    /\ UNCHANGED subentries
    /\ NoHandler
    /\ NavOnly

\* the viewed entry gains or loses a subentry by another session
SubentryCreated ==
    /\ subentries < MaxSubentries
    /\ subentries' = subentries + 1
    /\ UNCHANGED hobEntries
    /\ NoHandler
    /\ NavOnly

SubentryDeleted ==
    /\ subentries >= 1
    /\ subentries' = subentries - 1
    /\ UNCHANGED hobEntries
    /\ NoHandler
    /\ NavOnly

\* select_entry "goto_page" (select_entry.rs:33-43): the page is assigned,
\* then generate is awaited
SelectGotoPage(dir, ok) ==
    LET paged == [navState EXCEPT !.page = GotoPage(navState.page, dir)] IN
    /\ navState.variant = "SelectEntry"
    /\ paged.page <= MaxPage
    /\ navBefore' = navState
    /\ navLast' = [Nav("goto_page", ok) EXCEPT !.scenario =
                      IF ok /\ dir = "next" /\ navState = SelectEntryState(0, None)
                      THEN 1 ELSE 0]
    /\ navState' = IF ok THEN Generate(paged, hobEntries, subentries) ELSE paged
    /\ UNCHANGED <<hobEntries, subentries>>
    /\ NavOnly

\* select_entry "view_entry" (select_entry.rs:63-77): drill-down
SelectViewEntry(id, ok) ==
    LET new_state == ViewEntryState(id, 0) IN
    /\ navState.variant = "SelectEntry"
    /\ ok => CanGenerate(new_state, hobEntries, subentries)
    /\ navBefore' = navState
    /\ navLast' = Scenario("view_entry", ok, navLast.scenario = 1)
    /\ navState' = IF ok THEN ApplyChange(navState, Generate(new_state, hobEntries, subentries), TRUE)
                   ELSE navState
    /\ UNCHANGED <<hobEntries, subentries>>
    /\ NavOnly

\* select_entry "reset_search" (select_entry.rs:148-153)
SelectResetSearch(ok) ==
    LET reset == [navState EXCEPT !.page = 0, !.search_query = None] IN
    /\ navState.variant = "SelectEntry"
    /\ navBefore' = navState
    /\ navLast' = Nav("reset_search", ok)
    /\ navState' = IF ok THEN Generate(reset, hobEntries, subentries) ELSE reset
    /\ UNCHANGED <<hobEntries, subentries>>
    /\ NavOnly

\* select_entry "search_submit" with a query (select_entry.rs:168-182):
\* create_response or generate may fail after the assignments
SelectSearchSubmit(query, ok) ==
    LET searched == [navState EXCEPT !.page = 0, !.search_query = Some(query)] IN
    /\ navState.variant = "SelectEntry"
    /\ navBefore' = navState
    /\ navLast' = Nav("search_submit", ok)
    /\ navState' = IF ok THEN Generate(searched, hobEntries, subentries) ELSE searched
    /\ UNCHANGED <<hobEntries, subentries>>
    /\ NavOnly

\* select_entry "jump_page_submit" with a page number (select_entry.rs:183-197)
SelectJumpPageSubmit(jump_page, ok) ==
    LET jumped == [navState EXCEPT !.page =
                      IF jump_page = 0 THEN 0 ELSE jump_page - 1] IN
    /\ navState.variant = "SelectEntry"
    /\ navBefore' = navState
    /\ navLast' = Nav("jump_page_submit", ok)
    /\ navState' = IF ok THEN Generate(jumped, hobEntries, subentries) ELSE jumped
    /\ UNCHANGED <<hobEntries, subentries>>
    /\ NavOnly

\* the entry-list actions that only answer the interaction and return
\* MenuChange::none() (select_entry.rs:44-62, 78-147)
RespondKinds ==
    {"jump_page", "search", "create_entry", "create_oneoff_confirm",
     "create_ongoing_confirm"}

\* select_entry "jump_page", "search", "create_entry" and the two confirm
\* buttons: create_response(..).await?, the state is not touched
SelectRespond(kind, ok) ==
    /\ navState.variant = "SelectEntry"
    /\ navBefore' = navState
    /\ navLast' = Nav(kind, ok)
    /\ UNCHANGED <<navState, hobEntries, subentries>>
    /\ NavOnly

\* view_entry "back" (view_entry.rs:38-44): the referrer is taken out of the
\* session's state, then generate is awaited
EntryBack(ok) ==
    LET new_state == TakeReferrerOr(navState, SelectEntryState(0, None)) IN
    /\ navState.variant = "ViewEntry"
    /\ ok => CanGenerate(new_state, hobEntries, subentries)
    /\ navBefore' = navState
    /\ navLast' = Scenario("back", ok, navLast.scenario = 2)
    /\ navState' = IF ok THEN ApplyChange(ReferrerTaken(navState), Generate(new_state, hobEntries, subentries), FALSE)
                   ELSE ReferrerTaken(navState)
    /\ UNCHANGED <<hobEntries, subentries>>
    /\ NavOnly

\* view_entry "goto_page" (view_entry.rs:45-53)
EntryGotoPage(dir, ok) ==
    LET paged == [navState EXCEPT !.page = GotoPage(navState.page, dir)] IN
    /\ navState.variant = "ViewEntry"
    /\ paged.page <= MaxPage
    /\ ok => CanGenerate(paged, hobEntries, subentries)
    /\ navBefore' = navState
    /\ navLast' = Nav("goto_page", ok)
    /\ navState' = IF ok THEN Generate(paged, hobEntries, subentries) ELSE paged
    /\ UNCHANGED <<hobEntries, subentries>>
    /\ NavOnly

Fails == {"none", "request", "response", "generate"}

\* select_entry "oneoff_submit" / "ongoing_submit" (select_entry.rs:198-262):
\* insert_hob_entry, create_response, then the new entry is drilled into;
\* matched are the queries the new entry suits
SelectSubmitEntry(id, matched, fail) ==
    LET new_state == ViewEntryState(id, 0)
        entries == [all |-> hobEntries.all + 1,
                    found |-> [q \in Queries |->
                        IF q \in matched THEN hobEntries.found[q] + 1
                        ELSE hobEntries.found[q]]]
    IN
    /\ navState.variant = "SelectEntry"
    /\ hobEntries.all < MaxEntries
    /\ navBefore' = navState
    /\ navLast' = Nav("entry_submit", fail = "none")
    /\ hobEntries' = IF fail = "request" THEN hobEntries ELSE entries
    /\ navState' = IF fail = "none"
                   THEN ApplyChange(navState, Generate(new_state, entries, subentries), TRUE)
                   ELSE navState
    /\ UNCHANGED subentries
    /\ NavOnly

\* view_entry "delete_confirm" (view_entry.rs:146-177): DeleteHobEntry, the
\* referrer is taken, create_response, generate
EntryDeleteConfirm(matched, fail) ==
    LET new_state == TakeReferrerOr(navState, SelectEntryState(0, None))
        entries == AfterDelete(matched)
    IN
    /\ navState.variant = "ViewEntry"
    /\ navBefore' = navState
    /\ navLast' = Nav("delete_confirm", fail = "none")
    /\ IF fail = "request"
       THEN UNCHANGED <<navState, hobEntries>>
       ELSE /\ fail = "none" => CanGenerate(new_state, entries, subentries)
            /\ hobEntries' = entries
            /\ navState' = IF fail = "none"
                           THEN ApplyChange(ReferrerTaken(navState),
                                            Generate(new_state, entries, subentries), FALSE)
                           ELSE ReferrerTaken(navState)
    /\ UNCHANGED subentries
    /\ NavOnly

\* view_entry "view_subentry" (view_entry.rs:178-193): drill-down
EntryViewSubentry(id, ok) ==
    LET new_state == ViewSubentryState(id, navState.id) IN
    /\ navState.variant = "ViewEntry"
    /\ ok => CanGenerate(new_state, hobEntries, subentries)
    /\ navBefore' = navState
    /\ navLast' = Nav("view_subentry", ok)
    /\ navState' = IF ok THEN ApplyChange(navState, Generate(new_state, hobEntries, subentries), TRUE)
                   ELSE navState
    /\ UNCHANGED <<hobEntries, subentries>>
    /\ NavOnly

\* a Back that stores the state it leaves as the referrer of the state it
\* restores (MenuChange::update_state in place of MenuChange::new)
SubentryBackStoringReferrer(ok) ==
    LET new_state == TakeReferrerOr(navState, ViewEntryState(navState.entry_id, 0)) IN
    /\ navState.variant = "ViewSubentry"
    /\ ok => CanGenerate(new_state, hobEntries, subentries)
    /\ navBefore' = navState
    /\ navLast' = Nav("back", ok)
    /\ navState' = IF ok THEN ApplyChange(ReferrerTaken(navState), Generate(new_state, hobEntries, subentries), TRUE)
                   ELSE ReferrerTaken(navState)
    /\ UNCHANGED <<hobEntries, subentries>>
    /\ NavOnly

\* view_subentry "back" (view_subentry.rs:37-43)
SubentryBack(ok) ==
    LET new_state == TakeReferrerOr(navState, ViewEntryState(navState.entry_id, 0)) IN
    /\ navState.variant = "ViewSubentry"
    /\ ok => CanGenerate(new_state, hobEntries, subentries)
    /\ navBefore' = navState
    /\ navLast' = Nav("back", ok)
    /\ navState' = IF ok THEN ApplyChange(ReferrerTaken(navState), Generate(new_state, hobEntries, subentries), FALSE)
                   ELSE ReferrerTaken(navState)
    /\ UNCHANGED <<hobEntries, subentries>>
    /\ NavOnly

\* view_subentry "delete_confirm" (view_subentry.rs:123-156)
SubentryDeleteConfirm(fail) ==
    LET new_state == TakeReferrerOr(navState, ViewEntryState(navState.entry_id, 0))
        subs == IF subentries >= 1 THEN subentries - 1 ELSE 0
    IN
    /\ navState.variant = "ViewSubentry"
    /\ navBefore' = navState
    /\ navLast' = Nav("delete_confirm", fail = "none")
    /\ IF fail = "request"
       THEN UNCHANGED <<navState, subentries>>
       ELSE /\ fail = "none" => CanGenerate(new_state, hobEntries, subs)
            /\ subentries' = subs
            /\ navState' = IF fail = "none"
                           THEN ApplyChange(ReferrerTaken(navState),
                                            Generate(new_state, hobEntries, subs), FALSE)
                           ELSE ReferrerTaken(navState)
    /\ UNCHANGED hobEntries
    /\ NavOnly

(***************************************************************************)
(* Specification of the storage actor and its callers                      *)
(***************************************************************************)
\* the session manage creates (src/src/commands/hob.rs:33-45), the database
\* empty
InitNav ==
    /\ navState = SelectEntryState(0, None)
    /\ hobEntries = [all |-> 0, found |-> [q \in Queries |-> 0]]
    /\ subentries = 0
    /\ navBefore = SelectEntryState(0, None)
    /\ navLast = NoNav

\* everything but the session whose navigation is followed
InitRest ==
    /\ chan = <<>>
    /\ current = None
    /\ frames = <<>>
    /\ hobDb = [oneoff |-> {}, players |-> {}, ongoing |-> {}, subentries |-> {}]
    /\ hobTxn = [pc |-> "idle", last |-> [op |-> "none"],
                 wanted |-> [e \in {"OneOff", "Ongoing"} \X (1..MaxHobId) |-> {}]]
    /\ conn = {}
    /\ oneshot = [id \in ReqIds |-> [st |-> "unused"]]
    /\ responses = [id \in ReqIds |-> 0]
    /\ accepted = <<>>
    /\ executed = <<>>
    /\ cpc = [c \in Callers |-> "idle"]
    /\ cseq = [c \in Callers |-> 0]
    /\ creq = [c \in Callers |-> None]
    /\ view = [c \in Callers |-> Known(None)]
    /\ lastGet = [c \in Callers |-> NoGet]
    /\ lastErr = [c \in Callers |-> "none"]
    /\ sessions = [id \in MenuIds |-> 0]
    /\ regLock = NoTask
    /\ sessLock = [s \in Sessions |-> NoTask]
    /\ menuId = [s \in Sessions |-> 0]
    /\ page = [s \in Sessions |-> 0]
    /\ permit = [s \in Sessions |-> FALSE]
    /\ message = [s \in Sessions |-> "none"]
    /\ invalidated = [s \in Sessions |-> 0]
    /\ cmdPc = [s \in Sessions |-> "idle"]
    /\ tpc = [s \in Sessions |-> "none"]
    /\ tmenu = [s \in Sessions |-> 0]
    /\ hpc = [h \in Interactions |-> "idle"]
    /\ hreq = [h \in Interactions |-> None]
    /\ hsess = [h \in Interactions |-> 0]
    /\ apiBingo = 1
    /\ apiEnded = FALSE
    /\ apiDone = [p \in Players |-> {}]
    /\ curBingo = 0
    /\ complCache = {}
    /\ rankCache = {}
    /\ immCache = {}
    /\ rpc = [t \in Runs |-> "idle"]
    /\ rloc = [t \in Runs |-> NoLocals]
    /\ lookup = NoLookup
    /\ insert = NoInsert
    /\ hreport = [h \in Interactions |-> NoReport]

\* the db thread has initialised the database and signalled readiness, and
\* main has gone on to build the framework
InitStarted ==
    /\ thread = "running"
    /\ startup = [schema |-> "created", ready |-> "ok", main |-> "serving"]

(***************************************************************************)
(* The linked-user requests in full (src/src/role/db/link.rs), executed    *)
(* one after the other on the connection                                   *)
(***************************************************************************)
\* Discord ids that the requests may name
MaxDiscord == 3

Discords == 1..MaxDiscord

NoLink == [kind |-> "none"]

\* what InsertLinkedUser returns (link.rs:51-75, 87): (duplicate_discord,
\* duplicate_uuid), the first duplicate found
InsertLinkedUserValue(table, discord, uuid) ==
    IF RowsByDiscord(table, discord) # {}
    THEN <<None, Some((CHOOSE row \in RowsByDiscord(table, discord) : TRUE)[2])>>
    ELSE IF RowsByMinecraft(table, uuid) # {}
    THEN <<Some((CHOOSE row \in RowsByMinecraft(table, uuid) : TRUE)[1]), None>>
    ELSE <<None, None>>

\* what can fail in UpdateLinkedUser::execute
UpdateFails == {"none", "delete", "insert", "commit"}

\* executes each statement on the connection itself, without a transaction
UpdateLinkedUserAutocommit(table, discord, uuid, fail) ==
    LET deleted == table \ (RowsByDiscord(table, discord) \cup RowsByMinecraft(table, uuid))
    IN  CASE fail = "delete" -> table
          [] fail = "insert" -> deleted
          [] OTHER -> deleted \cup {<<discord, uuid>>}

\* UpdateLinkedUser::execute (link.rs:97-119): DELETE and INSERT inside a
\* transaction; a `?` that returns early drops the transaction, which rolls
\* back
UpdateLinkedUser(table, discord, uuid, fail) ==
    LET deleted == table \ (RowsByDiscord(table, discord) \cup RowsByMinecraft(table, uuid))
    IN  IF fail = "none" THEN deleted \cup {<<discord, uuid>>} ELSE table

\* RemoveLinkedUserByMinecraft: DELETE WHERE minecraft_uuid=?1 RETURNING discord_id
RemoveLinkedUserByMinecraft(table, uuid) ==
    [table |-> table \ RowsByMinecraft(table, uuid),
     value |-> IF RowsByMinecraft(table, uuid) = {} THEN None
               ELSE Some((CHOOSE row \in RowsByMinecraft(table, uuid) : TRUE)[1])]

LinkOnly ==
    UNCHANGED <<chan, current, thread, oneshot, responses, accepted, executed,
                callerVars, menuVars, cacheVars, navVars, errVars, bootVars,
                execVars, chunkArgs, chunk, hsender, splash>>

LinkInsert(discord, uuid) ==
    /\ conn' = InsertLinkedUser(conn, discord, uuid).table
    /\ linkLast' = [kind |-> "insert", discord |-> discord, uuid |-> uuid,
                    before |-> conn, ok |-> TRUE,
                    value |-> InsertLinkedUserValue(conn, discord, uuid)]
    /\ LinkOnly

LinkUpdate(discord, uuid, fail) ==
    /\ conn' = UpdateLinkedUser(conn, discord, uuid, fail)
    /\ linkLast' = [kind |-> "update", discord |-> discord, uuid |-> uuid,
                    before |-> conn, ok |-> fail = "none", value |-> <<None, None>>]
    /\ LinkOnly

LinkRemoveByDiscord(discord) ==
    /\ conn' = RemoveLinkedUserByDiscord(conn, discord).table
    /\ linkLast' = [kind |-> "remove", discord |-> discord, uuid |-> 0,
                    before |-> conn, ok |-> TRUE, value |-> <<None, None>>]
    /\ LinkOnly

LinkRemoveByMinecraft(uuid) ==
    /\ conn' = RemoveLinkedUserByMinecraft(conn, uuid).table
    /\ linkLast' = [kind |-> "remove", discord |-> 0, uuid |-> uuid,
                    before |-> conn, ok |-> TRUE, value |-> <<None, None>>]
    /\ LinkOnly

(***************************************************************************)
(* The splash reminder (src/src/splash_reminder)                           *)
(***************************************************************************)
\* splash messages that are posted
MaxSplash == 2
\* reaction events that arrive
MaxReactionEvents == 2

Splashes == 1..MaxSplash
ReactionEvents == 1..MaxReactionEvents

\* SplashReminderHandle::new (mod.rs:15-20) and nothing posted yet.  A timer
\* is named after the splash it was spawned for
SplashInit ==
    [latest |-> 0,          \* handle.latest, 0 for None
     cancel_tx |-> 0,       \* handle.cancel_tx: the timer it cancels, 0 for None
     handled |-> {},        \* splashes whose message event reached new_splash
     hour |-> {},           \* splashes created an hour ago or more
     timer |-> [m \in Splashes |-> "none"],
     cancelled |-> {},      \* timers whose cancel channel holds a value
     rpc |-> [r \in ReactionEvents |-> "idle"],
     rmsg |-> [r \in ReactionEvents |-> 0],
     time |-> [m \in Splashes |-> 0],        \* ReminderVariant::Time sent
     reactions |-> [m \in Splashes |-> 0]]   \* ReminderVariant::Reactions sent

SplashOnly ==
    UNCHANGED <<dbVars, callerVars, menuVars, cacheVars, navVars, errVars,
                bootVars, execVars, chunkArgs, chunk, hsender, linkLast>>

\* cancel_timer (mod.rs:26-32): the sender is taken and used
CancelTimer(handle) ==
    [handle EXCEPT !.cancel_tx = 0,
                   !.cancelled = IF handle.cancel_tx = 0 THEN @
                                 ELSE @ \cup {handle.cancel_tx}]

\* clear_latest (mod.rs:34-37)
ClearLatest(handle) == [CancelTimer(handle) EXCEPT !.latest = 0]

\* splashes_message past its checks (event.rs:36-40): new_splash under the
\* lock (mod.rs:39-51), spawn_timer included
NewSplash(m) ==
    /\ m \notin splash.handled
    /\ splash' = [CancelTimer([splash EXCEPT !.latest = m])
                      EXCEPT !.cancel_tx = m,
                             !.handled = @ \cup {m},
                             !.timer[m] = "sleeping"]
    /\ SplashOnly

\* an hour passes since splash m was created
HourPasses(m) ==
    /\ m \notin splash.hour
    /\ splash' = [splash EXCEPT !.hour = @ \cup {m}]
    /\ SplashOnly

\* select! of the timer task (reminder.rs:60-63), the sleep branch: the
\* sleep began after the splash was created
TimerSleepElapsed(m) ==
    /\ splash.timer[m] = "sleeping"
    /\ m \in splash.hour
    /\ splash' = [splash EXCEPT !.timer[m] = "elapsed"]
    /\ SplashOnly

\* select!, the cancel_rx branch: return
TimerCancelled(m) ==
    /\ splash.timer[m] = "sleeping"
    /\ m \in splash.cancelled
    /\ splash' = [splash EXCEPT !.timer[m] = "returned"]
    /\ SplashOnly

\* send_reminder(http, ReminderVariant::Time) (reminder.rs:65-67)
TimerSendReminder(m) ==
    /\ splash.timer[m] = "elapsed"
    /\ splash' = [splash EXCEPT !.timer[m] = "sent", !.time[m] = @ + 1]
    /\ SplashOnly

\* splashes_reaction, its first locked block (event.rs:47-67), for a
\* reaction to message m
ReactionCheck(r, m) ==
    /\ splash.rpc[r] = "idle"
    /\ splash' =
          IF splash.latest = 0 \/ m # splash.latest
          THEN [splash EXCEPT !.rpc[r] = "done"]
          ELSE IF m \in splash.hour
          THEN [ClearLatest(splash) EXCEPT !.rpc[r] = "done"]
          ELSE [splash EXCEPT !.rpc[r] = "fetch", !.rmsg[r] = m]
    /\ SplashOnly

\* the configuration, the emoji, the active bingo and the message's count
\* (event.rs:69-103): reached says whether all of them let the reminder go
ReactionFetch(r, reached) ==
    /\ splash.rpc[r] = "fetch"
    /\ splash' = [splash EXCEPT !.rpc[r] = IF reached THEN "clear" ELSE "done"]
    /\ SplashOnly

\* the second locked block (event.rs:105-108)
ReactionClear(r) ==
    /\ splash.rpc[r] = "clear"
    /\ splash' = [ClearLatest(splash) EXCEPT !.rpc[r] = "send"]
    /\ SplashOnly

\* send_reminder(.., ReminderVariant::Reactions {..}) (event.rs:110-127)
ReactionSendReminder(r) ==
    /\ splash.rpc[r] = "send"
    /\ splash' = [splash EXCEPT !.rpc[r] = "done",
                                !.reactions[splash.rmsg[r]] = @ + 1]
    /\ SplashOnly

\* timers that wait for their hour and have not been told to stop
PendingTimers ==
    {m \in Splashes : splash.timer[m] = "sleeping" /\ m \notin splash.cancelled}

\* no call of PaginatedChunk::new is being followed
InitPage ==
    /\ hsender = [h \in Interactions |-> "none"]
    /\ splash = SplashInit
    /\ linkLast = NoLink
    /\ chunkArgs = [length |-> 0, page |-> 0, page_size |-> 1]
    /\ chunk = None

Init ==
    /\ InitStarted
    /\ InitRest
    /\ InitNav
    /\ InitPage

NextDb ==
    \/ \E c \in DbCallers : \E req \in Requests(c) : CallerSend(c, req)
    \/ \E c \in DbCallers : CallerAwait(c)
    \/ \E c \in DbCallers : CallerCancel(c)
    \/ BlockingRecv
    \/ ExecuteBoxed

SpecDb == Init /\ [][NextDb]_vars

\* the db thread is an OS thread that runs whenever it can; the runtime polls
\* a caller's future once its reply channel has a value or is closed.  The
\* callers name one Minecraft UUID: which row a request is about does not
\* bear on whether its call returns.
NextCalls ==
    \/ \E c \in DbCallers : \E req \in {r \in Requests(c) : r.uuid <= 1} : CallerSend(c, req)
    \/ \E c \in DbCallers : CallerAwait(c)
    \/ \E c \in DbCallers : CallerCancel(c)
    \/ BlockingRecv
    \/ ExecuteBoxed

FairSpecDb ==
    /\ Init /\ [][NextCalls]_vars
    /\ WF_vars(BlockingRecv)
    /\ WF_vars(ExecuteBoxed)
    /\ \A c \in DbCallers : WF_vars(CallerAwait(c))

(***************************************************************************)
(* Startup: main creates the channel and awaits the readiness of the db    *)
(* thread (src/src/main.rs:50-58); the DbHandle, and with it every caller, *)
(* exists only after that (main.rs:129)                                    *)
(***************************************************************************)
InitStartup ==
    /\ thread = "init"
    /\ startup = [schema |-> "none", ready |-> "none", main |-> "await_ready"]
    /\ InitRest
    /\ InitNav
    /\ InitPage

Outcomes == {"ok", "err", "panic"}

\* signals readiness whatever initialise_database returned
StartDbThreadSignalsFirst(outcome, partial) ==
    /\ thread = "init"
    /\ thread' = IF outcome = "ok" THEN "running"
                 ELSE IF outcome = "err" THEN "returned" ELSE "panicked"
    /\ startup' = [startup EXCEPT
           !.schema = IF outcome = "ok" THEN "created"
                      ELSE IF partial THEN "partial" ELSE "none",
           !.ready = "ok"]
    /\ UNCHANGED <<chan, current, conn, oneshot, responses, accepted, executed>>
    /\ UNCHANGED <<callerVars, menuVars, cacheVars, navVars, errVars, execVars, auxVars>>

\* the spawned closure up to its loop (src/src/db/db_thread.rs:15-24):
\* initialise_database returns the connection with every table created, or
\* an error after none or some of them, or panics, which drops ready_tx
StartDbThread(outcome, partial) ==
    /\ thread = "init"
    /\ thread' = IF outcome = "ok" THEN "running"
                 ELSE IF outcome = "err" THEN "returned" ELSE "panicked"
    /\ startup' = [startup EXCEPT
           !.schema = IF outcome = "ok" THEN "created"
                      ELSE IF partial THEN "partial" ELSE "none",
           !.ready = IF outcome = "ok" THEN "ok"
                     ELSE IF outcome = "err" THEN "err" ELSE "dropped"]
    /\ UNCHANGED <<chan, current, conn, oneshot, responses, accepted, executed>>
    /\ UNCHANGED <<callerVars, menuVars, cacheVars, navVars, errVars, execVars, auxVars>>

\* match start_db_thread(db_rx).await { .. }? (src/src/main.rs:51-58)
MainAwaitReady ==
    /\ startup.main = "await_ready"
    /\ startup.ready # "none"
    /\ startup' = [startup EXCEPT
           !.main = IF startup.ready = "ok" THEN "serving" ELSE "aborted"]
    /\ UNCHANGED <<dbVars, callerVars, menuVars, cacheVars, navVars, errVars, execVars, auxVars>>

\* callers exist once main is past the await
Serving == startup.main = "serving" /\ NextDb

NextStartup ==
    \/ \E outcome \in Outcomes, partial \in BOOLEAN : StartDbThread(outcome, partial)
    \/ MainAwaitReady
    \/ Serving

SpecStartup == InitStartup /\ [][NextStartup]_vars

(***************************************************************************)
(* Requests whose execute runs other requests (src/src/shared/db/read.rs,  *)
(* src/src/role/db/cache, src/src/role/db/role_config/read.rs).  The db    *)
(* thread's stack is followed call by call; the request's effect on the    *)
(* tables is applied when the outermost execute returns.                   *)
(***************************************************************************)
\* specific-completion bingos a BuildRoleDeltaCompletions request may list
MaxDeltaBingos == 1

NestedKinds == {"CachedCompletions", "CacheCompletions", "GetCurrentBingo",
                "SetCurrentBingo", "BuildRoleDeltaCompletions"}

\* the requests caller c may issue next
NestedRequests(c) ==
    [id : {<<c, cseq[c] + 1>>}, kind : {"CachedCompletions", "CacheCompletions"},
     uuid : Players, bingo : {0}, bingos : {0}, panics : {FALSE}]
    \cup [id : {<<c, cseq[c] + 1>>}, kind : {"GetCurrentBingo"},
          uuid : {0}, bingo : {0}, bingos : {0}, panics : {FALSE}]
    \cup [id : {<<c, cseq[c] + 1>>}, kind : {"SetCurrentBingo"},
          uuid : {0}, bingo : BingoIds, bingos : {0}, panics : {FALSE}]
    \cup [id : {<<c, cseq[c] + 1>>}, kind : {"BuildRoleDeltaCompletions"},
          uuid : {0}, bingo : {0}, bingos : 0..MaxDeltaBingos, panics : {FALSE}]

\* the requests a body runs, in order: GetCurrentBingo runs GetBingoData if
\* there is a row (read.rs:77-85); the cache requests run GetCurrentBingo
\* (cache/read.rs:34, cache/write.rs:18); BuildRoleDeltaCompletions runs
\* GetRolePatterns, GetRoleMapping, GetRolePatterns and one GetRoleMapping
\* per listed bingo (role_config/read.rs:160-189)
InnerRequests(kind, req, stored) ==
    CASE kind \in {"CachedCompletions", "CacheCompletions"} -> <<"GetCurrentBingo">>
      [] kind = "GetCurrentBingo" ->
            IF stored = 0 THEN <<>> ELSE <<"GetBingoData">>
      [] kind = "BuildRoleDeltaCompletions" ->
            <<"GetRolePatterns", "GetRoleMapping", "GetRolePatterns">>
                \o [i \in 1..req.bingos |-> "GetRoleMapping"]
      [] OTHER -> <<>>

\* the outermost body's result and what it leaves in the tables
NestedExecute(req, stored, table) ==
    CASE req.kind = "CachedCompletions" ->
            LET out == CachedCompletions(table, req.uuid, stored) IN
            [stored |-> stored, table |-> out.table, value |-> out.value]
      [] req.kind = "CacheCompletions" ->
            [stored |-> stored, value |-> None,
             table |-> CacheCompletions(table, req.uuid, stored, {})]
      [] req.kind = "GetCurrentBingo" ->
            [stored |-> stored, table |-> table, value |-> GetCurrentBingo(stored)]
      [] req.kind = "SetCurrentBingo" ->
            [stored |-> SetCurrentBingo(stored, req.bingo), table |-> table,
             value |-> None]
      [] req.kind = "BuildRoleDeltaCompletions" ->
            [stored |-> stored, table |-> table, value |-> None]

Top == frames[Len(frames)]
Pending == Top.next \in 1..Len(InnerRequests(Top.kind, current.val, curBingo))

NestedOnly == UNCHANGED <<menuVars, navVars, errVars, startup, hobDb, hobTxn, auxVars>>
TablesUnchanged ==
    UNCHANGED <<apiBingo, apiEnded, apiDone, rankCache, immCache, rpc, rloc,
                lookup, insert>>

NestedSend(c, req) ==
    /\ RequestSend(c, req)
    /\ UNCHANGED <<menuVars, errVars>>

\* Ok(resp_rx.await?) (src/src/db/mod.rs:32)
NestedAwait(c) ==
    LET id == <<c, cseq[c]>> IN
    /\ cpc[c] = "await"
    /\ oneshot[id].st = "sent"
    /\ cpc' = [cpc EXCEPT ![c] = "idle"]
    /\ creq' = [creq EXCEPT ![c] = None]
    /\ oneshot' = [oneshot EXCEPT ![id] = [st |-> "taken"]]
    /\ UNCHANGED <<chan, current, thread, conn, responses, accepted, executed>>
    /\ UNCHANGED <<cseq, view, lastGet, lastErr, cacheVars, frames>>
    /\ NestedOnly

\* execute_boxed calls self.inner.execute(conn) (src/src/db/mod.rs:47)
ExecuteCall ==
    /\ thread = "running"
    /\ current # None
    /\ frames = <<>>
    /\ frames' = <<[kind |-> current.val.kind, next |-> 1]>>
    /\ UNCHANGED <<dbVars, callerVars, cacheVars>>
    /\ NestedOnly

\* hands the inner request to the channel and waits for its reply
ExecuteInnerResubmits ==
    /\ frames # <<>>
    /\ Pending
    /\ Len(chan) < ChannelCapacity
    /\ chan' = Append(chan, [current.val EXCEPT
           !.kind = InnerRequests(Top.kind, current.val, curBingo)[Top.next]])
    /\ frames' = [frames EXCEPT ![Len(frames)].next = 0]
    /\ UNCHANGED <<current, thread, conn, oneshot, responses, accepted, executed>>
    /\ UNCHANGED <<callerVars, cacheVars>>
    /\ NestedOnly

\* Inner { .. }.execute(conn): a plain call on the thread's own stack
ExecuteInner ==
    /\ frames # <<>>
    /\ Pending
    /\ frames' = Append([frames EXCEPT ![Len(frames)].next = @ + 1],
           [kind |-> InnerRequests(Top.kind, current.val, curBingo)[Top.next],
            next |-> 1])
    /\ UNCHANGED <<dbVars, callerVars, cacheVars>>
    /\ NestedOnly

\* an inner execute returns to the body that called it
ExecuteReturn ==
    /\ Len(frames) > 1
    /\ ~Pending
    /\ Top.next > 0
    /\ frames' = SubSeq(frames, 1, Len(frames) - 1)
    /\ UNCHANGED <<dbVars, callerVars, cacheVars>>
    /\ NestedOnly

\* the outermost execute returns; let _ = self.resp_tx.send(result)
\* (src/src/db/mod.rs:48)
ExecuteBoxedSend ==
    LET req == current.val
        out == NestedExecute(req, curBingo, complCache)
    IN
    /\ Len(frames) = 1
    /\ ~Pending
    /\ Top.next > 0
    /\ frames' = <<>>
    /\ current' = None
    /\ executed' = Append(executed, req.id)
    /\ curBingo' = out.stored
    /\ complCache' = out.table
    /\ oneshot' = [oneshot EXCEPT ![req.id] = [st |-> "sent", value |-> out.value]]
    /\ responses' = [responses EXCEPT ![req.id] = @ + 1]
    /\ UNCHANGED <<chan, thread, conn, accepted, callerVars>>
    /\ TablesUnchanged
    /\ NestedOnly

\* rx.blocking_recv() once request.execute has returned
NestedRecv == frames = <<>> /\ BlockingRecv

NextNested ==
    \/ \E c \in DbCallers : \E req \in NestedRequests(c) : NestedSend(c, req)
    \/ \E c \in DbCallers : NestedAwait(c)
    \/ NestedRecv
    \/ ExecuteCall
    \/ ExecuteInner
    \/ ExecuteReturn
    \/ ExecuteBoxedSend

SpecNested == Init /\ [][NextNested]_vars

(***************************************************************************)
(* The HoB write requests (src/src/hob/db/write.rs) on the tables of       *)
(* src/src/hob/db.rs:14-46, followed statement by statement.  hobDb is     *)
(* what the connection sees; the db thread runs one request at a time, so  *)
(* another request reads hobDb only while hobTxn.pc = "idle".              *)
(***************************************************************************)
HobIds == 1..MaxHobId
Children == 1..MaxChild
HobKinds == {"OneOff", "Ongoing"}
ChildLists == UNION {[1..n -> Children] : n \in 0..MaxChildren}

HobRequests ==
    [op : {"InsertHobEntry"}, kind : HobKinds, id : HobIds, children : ChildLists]
    \cup [op : {"UpdateHobEntry"}, kind : {"OneOff"}, id : HobIds, children : ChildLists]
    \cup [op : {"UpdateHobEntry"}, kind : {"Ongoing"}, id : HobIds, children : {<<>>}]
    \cup [op : {"DeleteHobEntry"}, kind : {"OneOff"}, id : HobIds, children : {<<>>}]

EntryTable(db, kind) == IF kind = "OneOff" THEN db.oneoff ELSE db.ongoing
\* the child rows of an entry: hob_oneoff_players rows are <<entry_id, player>>,
\* hob_ongoing_subentries rows are <<id, entry_id>>
ChildrenOf(db, kind, id) ==
    IF kind = "OneOff" THEN {row[2] : row \in {r \in db.players : r[1] = id}}
    ELSE {row[1] : row \in {r \in db.subentries : r[2] = id}}

\* INSERT INTO hob_entries_<kind>: id is the PRIMARY KEY
InsertEntryRow(db, kind, id) ==
    IF id \in EntryTable(db, kind) THEN [ok |-> FALSE, db |-> db]
    ELSE [ok |-> TRUE,
          db |-> IF kind = "OneOff" THEN [db EXCEPT !.oneoff = @ \cup {id}]
                 ELSE [db EXCEPT !.ongoing = @ \cup {id}]]

\* INSERT .. ON CONFLICT(id) DO UPDATE, and for a one-off entry
\* DELETE FROM hob_oneoff_players WHERE entry_id=?1
UpsertEntryRow(db, kind, id) ==
    IF kind = "OneOff"
    THEN [db EXCEPT !.oneoff = @ \cup {id},
                    !.players = {r \in @ : r[1] # id}]
    ELSE [db EXCEPT !.ongoing = @ \cup {id}]

\* one execute of the prepared statement in insert_oneoff_players (PRIMARY
\* KEY(entry_id, player)) or insert_ongoing_subentries (id PRIMARY KEY)
InsertChildRow(db, kind, id, child) ==
    IF kind = "OneOff"
    THEN IF <<id, child>> \in db.players THEN [ok |-> FALSE, db |-> db]
         ELSE [ok |-> TRUE, db |-> [db EXCEPT !.players = @ \cup {<<id, child>>}]]
    ELSE IF \E r \in db.subentries : r[1] = child THEN [ok |-> FALSE, db |-> db]
         ELSE [ok |-> TRUE, db |-> [db EXCEPT !.subentries = @ \cup {<<child, id>>}]]

\* DELETE FROM hob_entries_oneoff, else FROM hob_entries_ongoing; the child
\* rows go with ON DELETE CASCADE (foreign_keys is on, db_thread.rs:37)
DeleteEntryRows(db, id) ==
    IF id \in db.oneoff
    THEN [db EXCEPT !.oneoff = @ \ {id}, !.players = {r \in @ : r[1] # id}]
    ELSE [db EXCEPT !.ongoing = @ \ {id}, !.subentries = {r \in @ : r[2] # id}]

\* statements are committed one by one: what a failed request did stays
DropTransactionAutocommit(db, snapshot) == db

\* a Transaction dropped without commit rolls back (rusqlite's default
\* DropBehavior): the tables are as conn.transaction() found them
DropTransaction(db, snapshot) == snapshot

Range(seq) == {seq[i] : i \in 1..Len(seq)}

HobOnly ==
    UNCHANGED <<dbVars, callerVars, menuVars, cacheVars, navVars, errVars,
                bootVars, frames, auxVars>>

\* the request returns: Err after the `?` that dropped the transaction, Ok
\* after commit
HobReturn(req, ok, before) ==
    [pc |-> "idle", last |-> [op |-> req.op, req |-> req, ok |-> ok, before |-> before],
     wanted |-> IF ~ok THEN hobTxn.wanted
                ELSE IF req.op = "DeleteHobEntry"
                THEN [hobTxn.wanted EXCEPT ![<<"OneOff", req.id>>] =
                            IF req.id \in before.oneoff THEN {} ELSE @,
                        ![<<"Ongoing", req.id>>] =
                            IF req.id \in before.oneoff THEN @ ELSE {}]
                ELSE IF req.kind = "Ongoing" /\ req.op = "UpdateHobEntry"
                        /\ req.id \in before.ongoing
                THEN hobTxn.wanted
                ELSE [hobTxn.wanted EXCEPT ![<<req.kind, req.id>>] = Range(req.children)]]

Fail(req) ==
    /\ hobDb' = DropTransaction(hobDb, hobTxn.snapshot)
    /\ hobTxn' = HobReturn(req, FALSE, hobTxn.snapshot)

\* let transaction = conn.transaction()?
HobBegin(req) ==
    /\ hobTxn.pc = "idle"
    /\ hobTxn' = [pc |-> "entry", req |-> req, snapshot |-> hobDb, next |-> 1,
                  wanted |-> hobTxn.wanted]
    /\ UNCHANGED hobDb
    /\ HobOnly

\* the statement on the entry table; io: the statement fails for a reason
\* other than a constraint
HobEntryRow(io) ==
    LET req == hobTxn.req
        ins == InsertEntryRow(hobDb, req.kind, req.id)
    IN
    /\ hobTxn.pc = "entry"
    /\ IF io \/ (req.op = "InsertHobEntry" /\ ~ins.ok)
       THEN Fail(req)
       ELSE /\ hobDb' = CASE req.op = "InsertHobEntry" -> ins.db
                           [] req.op = "UpdateHobEntry" ->
                                 UpsertEntryRow(hobDb, req.kind, req.id)
                           [] req.op = "DeleteHobEntry" -> DeleteEntryRows(hobDb, req.id)
            /\ hobTxn' = [hobTxn EXCEPT !.pc = "children"]
    /\ HobOnly

\* one round of the loop in insert_oneoff_players / insert_ongoing_subentries
HobChildRow(io) ==
    LET req == hobTxn.req
        ins == InsertChildRow(hobDb, req.kind, req.id, req.children[hobTxn.next])
    IN
    /\ hobTxn.pc = "children"
    /\ hobTxn.next <= Len(req.children)
    /\ IF io \/ ~ins.ok
       THEN Fail(req)
       ELSE /\ hobDb' = ins.db
            /\ hobTxn' = [hobTxn EXCEPT !.next = @ + 1]
    /\ HobOnly

\* transaction.commit()?; Ok(())
HobCommit(io) ==
    LET req == hobTxn.req IN
    /\ hobTxn.pc = "children"
    /\ hobTxn.next > Len(req.children)
    /\ IF io
       THEN Fail(req)
       ELSE /\ hobTxn' = HobReturn(req, TRUE, hobTxn.snapshot)
            /\ UNCHANGED hobDb
    /\ HobOnly

NextHob ==
    \/ \E req \in HobRequests : HobBegin(req)
    \/ \E io \in BOOLEAN : HobEntryRow(io)
    \/ \E io \in BOOLEAN : HobChildRow(io)
    \/ \E io \in BOOLEAN : HobCommit(io)

SpecHob == Init /\ [][NextHob]_vars

(***************************************************************************)
(* PaginatedChunk::new (src/src/shared/menu/navigation.rs:120-142) as a    *)
(* function of its three usize arguments                                   *)
(***************************************************************************)
UsizeMax == 2 ^ UsizeBits - 1
Usize == 0..UsizeMax
Builds == {"debug", "release"}

\* usize::div_ceil
DivCeil(a, b) == (a \div b) + (IF a % b > 0 THEN 1 ELSE 0)

Panicked(what) == [panic |-> TRUE, what |-> what]

\* a + b on usize: an overflow panics where overflow checks are compiled in
\* (debug) and wraps elsewhere (release)
UsizeAdd(a, b, build) ==
    IF a + b <= UsizeMax THEN [panic |-> FALSE, val |-> a + b]
    ELSE IF build = "debug" THEN Panicked("attempt to add with overflow")
    ELSE [panic |-> FALSE, val |-> (a + b) % (UsizeMax + 1)]

PaginatedChunkNew(length, pg, page_size, build) ==
    IF page_size = 0 THEN Panicked("page_size must be greater than 0")
    ELSE LET total_pages == DivCeil(length, page_size)
             clamped_page == IF total_pages = 0 THEN 0 ELSE Min(pg, total_pages - 1)
             start_index == clamped_page * page_size
             sum == UsizeAdd(start_index, page_size, build)
         IN  IF sum.panic THEN sum
             ELSE [panic |-> FALSE,
                   range |-> [start |-> start_index, end |-> Min(sum.val, length)],
                   page |-> start_index \div page_size,
                   total_pages |-> total_pages]

InitPaginate ==
    /\ InitStarted
    /\ InitRest
    /\ InitNav
    /\ hsender = [h \in Interactions |-> "none"]
    /\ splash = SplashInit
    /\ linkLast = NoLink
    /\ chunkArgs \in [length : Usize, page : Usize, page_size : Usize]
    /\ chunk = None

\* the call, in either build
New(build) ==
    /\ chunk = None
    /\ chunk' = Some(PaginatedChunkNew(chunkArgs.length, chunkArgs.page,
                                       chunkArgs.page_size, build))
    /\ UNCHANGED <<chunkArgs, hsender, splash, linkLast>>
    /\ UNCHANGED <<dbVars, callerVars, menuVars, cacheVars, navVars, errVars,
                   bootVars, execVars>>

NextPaginate == \E build \in Builds : New(build)

SpecPaginate == InitPaginate /\ [][NextPaginate]_vars

(***************************************************************************)
(* Specification of the splash reminder: message events, the timer tasks   *)
(* and reaction events, all running concurrently                           *)
(***************************************************************************)
NextSplash ==
    \/ \E m \in Splashes : NewSplash(m)
    \/ \E m \in Splashes : HourPasses(m)
    \/ \E m \in Splashes : TimerSleepElapsed(m)
    \/ \E m \in Splashes : TimerCancelled(m)
    \/ \E m \in Splashes : TimerSendReminder(m)
    \/ \E r \in ReactionEvents, m \in Splashes : ReactionCheck(r, m)
    \/ \E r \in ReactionEvents, reached \in BOOLEAN : ReactionFetch(r, reached)
    \/ \E r \in ReactionEvents : ReactionClear(r)
    \/ \E r \in ReactionEvents : ReactionSendReminder(r)

SpecSplash == Init /\ [][NextSplash]_vars

(***************************************************************************)
(* Specification of the link table: any sequence of the requests that      *)
(* write it, from the empty table                                          *)
(***************************************************************************)
NextLink ==
    \/ \E discord \in Discords, uuid \in Uuids : LinkInsert(discord, uuid)
    \/ \E discord \in Discords, uuid \in Uuids, fail \in UpdateFails :
          LinkUpdate(discord, uuid, fail)
    \/ \E discord \in Discords : LinkRemoveByDiscord(discord)
    \/ \E uuid \in Uuids : LinkRemoveByMinecraft(uuid)

SpecLink == Init /\ [][NextLink]_vars

(***************************************************************************)
(* Specification of the sessions: commands, timeout tasks, interaction     *)
(* handlers and the storage actor they call                                *)
(***************************************************************************)
CommandStep(s) ==
    \/ \E id \in MenuIds : CommandSpawn(s, id)
    \/ CommandLockSessions(s)
    \/ CommandInsert(s)

TimeoutStep(s) ==
    \/ TimeoutElapse(s)
    \/ TimeoutReset(s)
    \/ TimeoutLockSessions(s)
    \/ TimeoutRemove(s)
    \/ TimeoutLockMenu(s)
    \/ \E ok \in BOOLEAN : TimeoutInvalidate(s, ok)

HandlerStep(h) ==
    \/ HandlerLockSessions(h)
    \/ HandlerGet(h)
    \/ HandlerLockSession(h)
    \/ \E kind \in {"component", "modal"} : \E owner \in BOOLEAN :
          HandlerBegin(h, kind, owner)
    \/ HandlerDeny(h)
    \/ HandlerRequest(h)
    \/ HandlerAwait(h)
    \/ \E ok \in BOOLEAN : HandlerEdit(h, ok)

DbThreadStep == BlockingRecv \/ ExecuteBoxed

NextMenu ==
    \/ \E s \in Sessions : CommandStep(s)
    \/ \E s \in Sessions : TimeoutStep(s)
    \/ \E h \in Interactions : \E id \in MenuIds : InteractionArrives(h, id)
    \/ \E h \in Interactions : HandlerStep(h)
    \/ DbThreadStep

SpecMenu == Init /\ [][NextMenu]_vars

\* the scheduler runs every task that can take a step, and the db thread runs;
\* nothing obliges a user to invoke a command or to interact
FairSpecMenu ==
    /\ SpecMenu
    /\ \A s \in Sessions : WF_vars(CommandLockSessions(s) \/ CommandInsert(s))
    /\ \A s \in Sessions : WF_vars(TimeoutStep(s))
    /\ \A h \in Interactions : WF_vars(HandlerStep(h))
    /\ WF_vars(DbThreadStep)

(***************************************************************************)
(* Specification of the bingo-epoch cache: the API, the clock and          *)
(* concurrent runs of player_roles                                         *)
(***************************************************************************)
RolesStep(t) ==
    \/ \E p \in Players : \E ok \in BOOLEAN : RolesStart(t, p, ok)
    \/ \E ok \in BOOLEAN : UpdateStart(t, ok)
    \/ RolesSetCurrentBingo(t)
    \/ RolesClock(t)
    \/ RolesCachedCompletions(t)
    \/ \E ok \in BOOLEAN : RolesBingoCompletions(t, ok)
    \/ RolesCacheCompletions(t)
    \/ RolesCachedBingoRank(t)
    \/ RolesCachedImmortal(t)
    \/ \E ok \in BOOLEAN : \E profile \in Profiles : RolesBingoProfileData(t, ok, profile)
    \/ RolesCacheImmortal(t)
    \/ RolesCacheBingoRank(t)

NextCache ==
    \/ ClockPassesEnd
    \/ ApiAdvance
    \/ \E p \in Players : PlayerCompletes(p)
    \/ \E t \in Runs : RolesStep(t)

SpecCache == Init /\ [][NextCache]_vars

\* a second player_roles run, started by another /roles command or role
\* button while the first is under way (src/src/role/request.rs:289-296)
RolesStartConcurrently(t, p, ok) ==
    /\ t \notin RoleRuns
    /\ rpc[t] = "idle"
    /\ IF ok
       THEN /\ rpc' = [rpc EXCEPT ![t] = "set_current_bingo"]
            /\ rloc' = [rloc EXCEPT ![t] =
                   [player |-> p, cur |-> apiBingo, ended |-> FALSE, compl |-> {},
                    hit |-> FALSE, failed |-> FALSE, rank |-> None, imm |-> None,
                    data |-> None]]
       ELSE UNCHANGED <<rpc, rloc>>
    /\ UNCHANGED <<apiBingo, apiEnded, apiDone, curBingo, complCache, rankCache, immCache>>
    /\ lookup' = NoLookup
    /\ insert' = NoInsert
    /\ CacheOnly

\* two runs during one bingo
NextRoles ==
    \/ \E p \in Players : PlayerCompletes(p)
    \/ \E t \in Runs : RolesStep(t)
    \/ \E t \in Runs, p \in Players, ok \in BOOLEAN : RolesStartConcurrently(t, p, ok)

SpecRoles == Init /\ [][NextRoles]_vars

(***************************************************************************)
(* Specification of one HoB edit session and the database it lists         *)
(***************************************************************************)
SelectStep ==
    \/ \E dir \in Dirs, ok \in BOOLEAN : SelectGotoPage(dir, ok)
    \/ \E id \in EntryIds, ok \in BOOLEAN : SelectViewEntry(id, ok)
    \/ \E ok \in BOOLEAN : SelectResetSearch(ok)
    \/ \E query \in Queries, ok \in BOOLEAN : SelectSearchSubmit(query, ok)
    \/ \E jump_page \in 0..(MaxPage + 1), ok \in BOOLEAN : SelectJumpPageSubmit(jump_page, ok)
    \/ \E kind \in RespondKinds, ok \in BOOLEAN : SelectRespond(kind, ok)
    \/ \E id \in EntryIds, matched \in SUBSET Queries, fail \in Fails :
          SelectSubmitEntry(id, matched, fail)

EntryStep ==
    \/ \E ok \in BOOLEAN : EntryBack(ok)
    \/ \E dir \in Dirs, ok \in BOOLEAN : EntryGotoPage(dir, ok)
    \/ \E matched \in SUBSET Queries, fail \in Fails : EntryDeleteConfirm(matched, fail)
    \/ \E id \in EntryIds, ok \in BOOLEAN : EntryViewSubentry(id, ok)

SubentryStep ==
    \/ \E ok \in BOOLEAN : SubentryBack(ok)
    \/ \E fail \in Fails : SubentryDeleteConfirm(fail)

DatabaseStep ==
    \/ \E matched \in SUBSET Queries : EntryCreated(matched)
    \/ \E matched \in SUBSET Queries : EntryDeleted(matched)
    \/ SubentryCreated
    \/ SubentryDeleted

NextNav ==
    \/ SelectStep
    \/ EntryStep
    \/ SubentryStep
    \/ DatabaseStep

SpecNav == Init /\ [][NextNav]_vars

(***************************************************************************)
(* Backtrack::update_state on its own: any state the session may hold, any *)
(* state it may be given                                                   *)
(***************************************************************************)
\* states without a referrer
FreshStates ==
    {SelectEntryState(pg, q) : pg \in 0..MaxPage, q \in {None} \cup {Some(x) : x \in Queries}}
        \cup {ViewEntryState(id, pg) : id \in EntryIds, pg \in 0..MaxPage}
        \cup {ViewSubentryState(id, entry_id) : id \in EntryIds, entry_id \in EntryIds}

\* states a session may hold: a referrer, if any, is a fresh state
HeldStates ==
    FreshStates \cup
        {[st EXCEPT !.referrer_state = Some(ref)] :
            st \in {x \in FreshStates : x.variant # "SelectEntry"}, ref \in FreshStates}

InitUpdateState ==
    /\ InitStarted
    /\ InitRest
    /\ InitPage
    /\ navState \in HeldStates
    /\ hobEntries = [all |-> 0, found |-> [q \in Queries |-> 0]]
    /\ subentries = 0
    /\ navBefore = navState
    /\ navLast = NoNav

\* session.state.update_state(new_state), once
UpdateStateApply(new_state) ==
    /\ navLast.kind = "none"
    /\ navBefore' = navState
    /\ navState' = UpdateState(navState, new_state)
    /\ navLast' = [kind |-> "update_state", ok |-> TRUE, chained |-> FALSE,
                   scenario |-> 0, new_state |-> new_state]
    /\ UNCHANGED <<hobEntries, subentries>>
    /\ NavOnly

NextUpdateState == \E new_state \in HeldStates : UpdateStateApply(new_state)

SpecUpdateState == InitUpdateState /\ [][NextUpdateState]_vars

(***************************************************************************)
(* Properties of the storage actor                                         *)
(***************************************************************************)
IsPrefix(s, t) == Len(s) <= Len(t) /\ SubSeq(t, 1, Len(s)) = s
InSeq(x, seq) == \E i \in 1..Len(seq) : seq[i] = x

\* C1: the actor executes requests in the order the channel took them, and a
\* get that a caller sends after its previous request was answered returns
\* exactly the row that caller's answered inserts and removes left behind,
\* whatever the other callers submitted in between.
C1_FifoReadYourWrites ==
    /\ IsPrefix(executed, accepted)
    /\ \A c \in DbCallers :
          lastGet[c].got /\ view[c].known => lastGet[c].row = view[c].row

\* a caller inserted its row, then read it back, with other callers' requests
\* executed as well
C1_Witness ==
    \E c \in DbCallers :
        /\ lastGet[c].got /\ lastGet[c].row.some
        /\ cseq[c] = 2
        /\ \E i \in 1..Len(executed) : executed[i][1] # c

\* C2: a panic or an error inside one request's execution does not stop the
\* loop: the thread keeps running, no later send fails, and the only reply
\* channel closed without a value is the failing request's own.
C2_FailureStaysWithItsRequest ==
    /\ thread = "running"
    /\ \A c \in DbCallers : lastErr[c] # "send_error"
    /\ \A c \in DbCallers :
          creq[c].some /\ oneshot[creq[c].val.id].st = "tx_dropped"
              => creq[c].val.panics

\* the request has left the actor: accepted, no longer queued, not in execution
Disposed(id) ==
    /\ InSeq(id, accepted)
    /\ id \notin QueuedIds
    /\ ~(current.some /\ current.val.id = id)

\* C3: every request the channel accepted gets exactly one response on its
\* reply channel, never more than one, and none only if the caller had
\* dropped the receiving end.
C3_ExactlyOneResponse ==
    \A id \in ReqIds :
        /\ responses[id] <= 1
        /\ Disposed(id) => responses[id] = 1 \/ oneshot[id].st = "rx_dropped"

(***************************************************************************)
(* Properties of the sessions                                              *)
(***************************************************************************)
\* the tasks that read or write session s: a handler from the moment it holds
\* the session guard to its return, a timeout task while it invalidates
HandlerIn(h, s) ==
    hsess[h] = s /\ hpc[h] \in {"begin", "deny", "request", "await", "edit"}
TimeoutIn(t, s) == tmenu[t] = s /\ tpc[t] = "invalidate"
Users(s) ==
    {Handler(h) : h \in {i \in Interactions : HandlerIn(i, s)}}
        \cup {Timeout(t) : t \in {i \in Sessions : TimeoutIn(i, s)}}

\* C4: the tasks working on one session are serialized by its lock: at any
\* moment at most one task is between taking the session guard and its
\* return (storage request, reply and message edit included), and it is the
\* holder of the session's lock.
C4_SessionAccessSerialized ==
    \A s \in Sessions :
        /\ Cardinality(Users(s)) <= 1
        /\ Users(s) # {} => Users(s) = {sessLock[s]}

\* one interaction awaits its storage reply while a second one for the same
\* session waits for the session lock
C4_Witness ==
    \E h1, h2 \in Interactions :
        /\ h1 # h2
        /\ hsess[h1] # 0 /\ hsess[h1] = hsess[h2]
        /\ hpc[h1] = "await"
        /\ hpc[h2] = "lock_session"

\* the timeout task took session s out of the registry
Removed(s) == \E t \in Sessions : tpc[t] # "remove" /\ tmenu[t] = s

\* C5: once the timeout task has removed a session from the registry, no
\* interaction takes its lock, also not one that looked it up before.
C5_RemovedSessionNeverLocked ==
    [][\A h \in Interactions :
          hpc[h] = "lock_session" /\ hpc'[h] = "begin" => ~Removed(hsess[h])]_vars

\* C6: the registry lock is held for the single map operation only: whoever
\* holds it is at its insert, get or remove and neither waits for a session
\* lock nor holds one.
C6_RegistryLockOnlyForMapOperation ==
    /\ \A s \in Sessions : regLock = Cmd(s) => cmdPc[s] = "insert"
    /\ \A s \in Sessions : regLock = Timeout(s) => tpc[s] = "remove"
    /\ \A h \in Interactions : regLock = Handler(h) => hpc[h] = "get"

\* C7: an interaction for a session B in the registry never waits for the
\* registry lock while a timeout task waits to invalidate, or invalidates,
\* another session A.
C7_OtherSessionNotHeldUp ==
    \A h \in Interactions, t \in Sessions :
        ~ /\ hpc[h] = "lock_sessions"
          /\ sessions[hreq[h].val] # 0
          /\ regLock = Timeout(t)
          /\ \/ tpc[t] = "lock_menu" /\ sessLock[tmenu[t]] # NoTask
             \/ tpc[t] = "invalidate"

\* number of tasks that can wait for one another
TaskCount == 2 * MaxSessions + MaxInteractions + 1

\* the task that `task` waits for: the holder of the lock it wants, or the db
\* thread while its request waits for room in the channel or for the reply
Blocker(task) ==
    CASE task[1] = "command" ->
            IF cmdPc[task[2]] = "lock_sessions" THEN regLock ELSE NoTask
      [] task[1] = "timeout" ->
            IF tpc[task[2]] = "lock_sessions" THEN regLock
            ELSE IF tpc[task[2]] = "lock_menu" THEN sessLock[tmenu[task[2]]]
            ELSE NoTask
      [] task[1] = "interaction" ->
            IF hpc[task[2]] = "lock_sessions" THEN regLock
            ELSE IF hpc[task[2]] = "lock_session" THEN sessLock[hsess[task[2]]]
            ELSE IF hpc[task[2]] \in {"request", "await"} THEN DbThread
            ELSE NoTask
      [] OTHER -> NoTask

Runnable(task) ==
    CASE task[1] = "command" -> ENABLED CommandStep(task[2])
      [] task[1] = "timeout" -> ENABLED TimeoutStep(task[2])
      [] task[1] = "interaction" -> ENABLED HandlerStep(task[2])
      [] task[1] = "db_thread" -> ENABLED DbThreadStep
      [] OTHER -> FALSE

RECURSIVE Progresses(_, _)
Progresses(task, depth) ==
    \/ Runnable(task)
    \/ /\ depth > 0
       /\ Blocker(task) # NoTask
       /\ Progresses(Blocker(task), depth - 1)

\* the tasks that have started and not returned
StartedTasks ==
    {Cmd(s) : s \in {i \in Sessions : cmdPc[i] \in {"lock_sessions", "insert"}}}
        \cup {Timeout(s) : s \in {i \in Sessions : tpc[i] \notin {"none", "done"}}}
        \cup {Handler(h) : h \in {i \in Interactions : hpc[i] \notin {"idle"} \cup HandlerDone}}

\* C8: no deadlock: every task that has started and not returned can take a
\* step, or waits for a task that can, along a chain of waits that never
\* comes back to a waiting task (registry lock, session locks, request
\* channel and replies).
C8_NoDeadlock == \A task \in StartedTasks : Progresses(task, TaskCount)

\* the longest chain: an interaction waits for the registry lock, held by a
\* timeout task that waits for the session lock, held by a handler that
\* awaits the db thread's reply
C8_Witness ==
    \E h1, h2 \in Interactions, t \in Sessions :
        /\ hpc[h2] = "lock_sessions"
        /\ regLock = Timeout(t)
        /\ tpc[t] = "lock_menu"
        /\ sessLock[tmenu[t]] = Handler(h1)
        /\ hpc[h1] = "await"

\* C9: invalidate (the disable-controls edit) runs at most once per session.
C9_InvalidateAtMostOnce == \A s \in Sessions : invalidated[s] <= 1

\* two timeout tasks went for the same menu id: one invalidated the session
\* it removed, the other found the id gone and did nothing
C9_Witness ==
    \E t, s \in Sessions :
        /\ tpc[t] = "done" /\ tmenu[t] = 0
        /\ menuId[s] = menuId[t]
        /\ invalidated[s] = 1

InRegistry(s) == menuId[s] # 0 /\ sessions[menuId[s]] = s

\* C10: every session put into the registry is eventually out of it again
\* (in this model interactions, and so resets, stop arriving).
C10_EverySessionEventuallyRemoved ==
    \A s \in Sessions : [](InRegistry(s) => <>(~InRegistry(s)))

\* C11: a reset restarts the inactivity sleep: the timeout task of a session
\* never removes its session while a reset signalled by an owner interaction
\* is still pending, that is, not yet answered by a restart of the sleep.
C11_ResetRestartsSleep ==
    [][\A t \in Sessions :
          tpc[t] = "remove" /\ tpc'[t] = "lock_menu" /\ tmenu'[t] = t
              => ~permit[t]]_vars

(***************************************************************************)
(* Properties of the bingo-epoch cache                                     *)
(***************************************************************************)
\* C12: a completions or bingo rank lookup that finds the player's row
\* stamped E returns the stored fact and keeps the row while the current
\* bingo is at most E, and returns absent and deletes the row when it is
\* greater; a lookup that finds no row returns absent and leaves none.
C12_EpochLookup ==
    lookup.kind \in {"completions", "rank"} =>
        /\ lookup.before = {} => ~lookup.value.some /\ lookup.after = {}
        /\ \A row \in lookup.before :
              IF lookup.current <= row.stamp
              THEN lookup.value = Some(row.val) /\ lookup.after = lookup.before
              ELSE ~lookup.value.some /\ lookup.after = {}

\* a lookup found a row of an earlier bingo and deleted it
C12_Witness ==
    /\ lookup.kind \in {"completions", "rank"}
    /\ \E row \in lookup.before : lookup.current > row.stamp
    /\ lookup.after = {}

\* C13: an immortal row saying true, stamped E, is returned as true and kept
\* by every lookup at a current bingo >= E; an immortal row saying false is
\* dropped by a lookup at a later bingo and served up to then.
C13_ImmortalLatch ==
    lookup.kind = "immortal" =>
        \A row \in lookup.before :
            /\ row.val /\ lookup.current >= row.stamp
                  => lookup.value = Some(TRUE) /\ lookup.after = lookup.before
            /\ ~row.val /\ lookup.current > row.stamp
                  => ~lookup.value.some /\ lookup.after = {}
            /\ ~row.val /\ lookup.current <= row.stamp
                  => lookup.value = Some(FALSE) /\ lookup.after = lookup.before

\* an immortal row saying true was looked up during a later bingo
C13_Witness ==
    /\ lookup.kind = "immortal"
    /\ \E row \in lookup.before : row.val /\ lookup.current > row.stamp

\* C14: an insert leaves exactly one row for its player, stamped with the
\* bingo that is current when the insert executes, and no table ever holds
\* two rows of one player.
C14_InsertStampsAndReplaces ==
    /\ insert.kind # "none" =>
          /\ Cardinality(insert.rows) = 1
          /\ \A row \in insert.rows : row.stamp = insert.current
    /\ \A p \in Players :
          /\ Cardinality(RowsOf(complCache, p)) <= 1
          /\ Cardinality(RowsOf(rankCache, p)) <= 1
          /\ Cardinality(RowsOf(immCache, p)) <= 1

\* an insert replaced a row with an earlier stamp, executing after the
\* current bingo had moved on from the one its run fetched
C14_Witness ==
    /\ insert.kind # "none"
    /\ insert.current > insert.cur
    /\ \A row \in insert.rows : row.stamp = insert.current

\* C15: completions are only written to the cache when the run saw the
\* current bingo ended or the fetched completions include it; otherwise the
\* run goes on without a write.
C15_ConditionalWrite ==
    /\ \A t \in Runs :
          rpc[t] = "cache_completions" => ShouldCacheCompletions(rloc[t], rloc[t].compl)
    /\ insert.kind = "completions" =>
          insert.ended \/ \A row \in insert.rows : insert.cur \in row.val

\* a run fetched completions that lack the running bingo and went on to the
\* rank lookup with the player's cache row still absent
C15_Witness ==
    \E t \in Runs :
        /\ rpc[t] = "cached_bingo_rank"
        /\ ~rloc[t].hit /\ ~rloc[t].failed
        /\ ~ShouldCacheCompletions(rloc[t], rloc[t].compl)
        /\ RowsOf(complCache, rloc[t].player) = {}

\* C16: while the current bingo is live, every completions cache hit is a
\* set that contains the current bingo.
C16_NoStaleHitMidEvent ==
    lookup.kind = "completions" /\ lookup.value.some /\ lookup.live
        => lookup.current \in lookup.value.val

\* C17: the completions of a failed fetch are never written to the cache.
C17_FailedFetchNotCached ==
    insert.kind = "completions" => ~insert.failed

\* C18: the stored current bingo id never decreases.
C18_CurrentBingoMonotonic == [][curBingo' >= curBingo]_vars

(***************************************************************************)
(* Properties of the menu navigation                                       *)
(***************************************************************************)
\* C19: after an interaction whose handler returned an error the session's
\* state is the state it had when the interaction began.
C19_ErrorLeavesStateUnchanged ==
    navLast.kind # "none" /\ ~navLast.ok => navState = navBefore

\* the state Back is to restore: the referrer of the state it was invoked
\* in, or the default root of that state
BackTarget ==
    TakeReferrerOr(navBefore,
        IF navBefore.variant = "ViewSubentry"
        THEN ViewEntryState(navBefore.entry_id, 0)
        ELSE SelectEntryState(0, None))

\* the last page of what a state lists
LastPage(state) ==
    LET length == IF state.variant = "SelectEntry"
                  THEN Listed(hobEntries, state.search_query) ELSE subentries
        size == IF state.variant = "SelectEntry" THEN PAGE_SIZE ELSE SUBENTRIES_PAGE_SIZE
    IN  IF length = 0 THEN 0 ELSE (length - 1) \div size

\* C20 as stated: a drill-down from A stores A, and a Back that succeeds
\* yields exactly the stored state, or the default root without one.
C20_BackYieldsExactlyA ==
    /\ navLast.kind \in {"view_entry", "view_subentry"} /\ navLast.ok
          => navState.referrer_state = Some(navBefore)
    /\ navLast.kind = "back" /\ navLast.ok => navState = BackTarget

\* C20, amended: a drill-down from A stores exactly A as the referrer of B,
\* and a Back that succeeds yields the stored state (or, without one, the
\* default root) with its variant, filter, ids and own referrer, its page
\* being the stored page or the last page that exists, if that is less.
C20_BackYieldsAClamped ==
    /\ navLast.kind \in {"view_entry", "view_subentry"} /\ navLast.ok
          => navState.referrer_state = Some(navBefore)
    /\ navLast.kind = "back" /\ navLast.ok =>
          /\ navState = [BackTarget EXCEPT !.page = Min(@, LastPage(BackTarget))]
          /\ ~navBefore.referrer_state.some => navState = BackTarget

\* Back was invoked in a state whose referrer is on a page that exists no
\* more, and came back to that referrer on its last page
C20_Witness ==
    /\ navLast.kind = "back" /\ navLast.ok
    /\ navBefore.referrer_state.some
    /\ navState.page < navBefore.referrer_state.val.page
    /\ navState.search_query = navBefore.referrer_state.val.search_query

\* C21 as stated: after two successive drill-downs, Back followed by a
\* second Back goes to the default state SelectEntryState::new(0, None).
C21_SecondBackGoesToDefault ==
    navLast.kind = "back" /\ navLast.ok /\ navLast.chained
        => navState = SelectEntryState(0, None)

\* C21, amended: the whole chain of referrers is retained.  The second
\* drill-down stores the entry state together with its own referrer; after
\* two successive drill-downs the first Back yields the entry state with the
\* entry-list state still stored as its referrer, and the second Back goes to
\* that entry-list state (its page clamped to the last existing page), not to
\* the default.
C21_ChainRetained ==
    /\ navLast.kind = "view_subentry" /\ navLast.ok
          => /\ navState.referrer_state.some
             /\ navState.referrer_state.val.referrer_state = navBefore.referrer_state
    /\ navLast.kind = "back" /\ navLast.ok /\ navBefore.variant = "ViewSubentry"
         /\ navBefore.referrer_state.some
          => navState.referrer_state = navBefore.referrer_state.val.referrer_state
    /\ navLast.kind = "back" /\ navLast.ok /\ navLast.chained
          => /\ navBefore.referrer_state.some
             /\ navState = [navBefore.referrer_state.val EXCEPT
                               !.page = Min(@, LastPage(navBefore.referrer_state.val))]

\* list on page 1, drill-down, drill-down, Back, Back: on page 1 again
C21_Witness ==
    /\ navLast.kind = "back" /\ navLast.ok /\ navLast.chained
    /\ navState.variant = "SelectEntry"
    /\ navState.page = 1
    /\ navState # SelectEntryState(0, None)

C23_ScenarioEndsOnPage1 ==
    /\ navLast.scenario = 1 /\ navLast.kind = "goto_page"
          => navState = SelectEntryState(1, None)
    /\ navLast.scenario = 2 /\ navLast.kind = "view_entry"
          => /\ navState.variant = "ViewEntry"
             /\ navState.referrer_state = Some(SelectEntryState(1, None))
    /\ navLast.scenario = 3 => navState = SelectEntryState(1, None)

\* C23, amended: from browsing page 0 without filter, goto_page next yields
\* browsing page 1 if the list holds more than PAGE_SIZE entries and page 0
\* otherwise; view_entry yields viewing that entry on page 0 with exactly the
\* browsing state as referrer; back yields that browsing state on its page,
\* or on page 0 if the list holds no more than PAGE_SIZE entries by then; the
\* filter is absent throughout.  With more than PAGE_SIZE entries at both
\* times the session ends browsing page 1.
C23_ScenarioFollowsList ==
    /\ navLast.scenario = 1 /\ navLast.kind = "goto_page"
          => navState = SelectEntryState(IF hobEntries.all > PAGE_SIZE THEN 1 ELSE 0, None)
    /\ navLast.scenario = 2 /\ navLast.kind = "view_entry"
          => /\ navState.variant = "ViewEntry" /\ navState.page = 0
             /\ navState.referrer_state = Some(navBefore)
             /\ navBefore \in {SelectEntryState(0, None), SelectEntryState(1, None)}
    /\ navLast.scenario = 3
          => /\ navBefore.referrer_state.some
             /\ navState = SelectEntryState(
                    IF hobEntries.all > PAGE_SIZE
                    THEN navBefore.referrer_state.val.page ELSE 0, None)

\* the sequence ran to its end and the session is browsing page 1
C23_Witness ==
    /\ navLast.scenario = 3
    /\ navLast.kind = "back"
    /\ navState = SelectEntryState(1, None)

(***************************************************************************)
(* Properties of error reporting                                           *)
(***************************************************************************)
\* C24: an interaction whose menu id is not in the registry ends with the
\* user error 'This menu has expired!', reported in the user-error container
\* and logged as a user error, holds no session and no lock, and its lookup
\* changes no session.
C24_ExpiredIsUserError ==
    /\ [](\A h \in Interactions :
            hpc[h] = "done_expired" =>
                /\ hreport[h].container = "user_error"
                /\ hreport[h].log = "User error while handling event"
                /\ hreport[h].error = UserError("This menu has expired!")
                /\ hsess[h] = 0
                /\ regLock # Handler(h)
                /\ \A s \in Sessions : sessLock[s] # Handler(h))
    /\ [][\A h \in Interactions :
            hpc[h] # "done_expired" /\ hpc'[h] = "done_expired" =>
                /\ sessions[hreq[h].val] = 0
                /\ UNCHANGED <<sessions, sessLock, menuId, page, permit, message,
                               invalidated>>]_vars

\* an interaction came for a menu whose session the timeout task had
\* removed, and was answered with the user error
C24_Witness ==
    \E h \in Interactions, s \in Sessions :
        /\ hpc[h] = "done_expired"
        /\ hreport[h].container = "user_error"
        /\ Removed(s)

(***************************************************************************)
(* Properties of startup                                                   *)
(***************************************************************************)
\* C25: a request is sent, received or executed only after the schema has
\* been set up and readiness signalled; if setup fails (or panics) readiness
\* carries the failure, main aborts, the thread is not in its loop and no
\* request is ever executed.
C25_NoRequestBeforeReady ==
    /\ (chan # <<>> \/ current # None \/ accepted # <<>> \/ executed # <<>>)
          => startup.schema = "created" /\ startup.ready = "ok"
    /\ startup.main = "serving" => startup.schema = "created" /\ startup.ready = "ok"
    /\ startup.ready = "ok" => thread \in {"running", "panicked"}
    /\ startup.ready = "err" => thread = "returned"
    /\ startup.ready \in {"err", "dropped"}
          => /\ startup.main \in {"await_ready", "aborted"}
             /\ startup.schema # "created"
             /\ executed = <<>> /\ current = None /\ chan = <<>>

\* started from nothing, the actor has executed a request
C25_Witness ==
    /\ executed # <<>>
    /\ startup = [schema |-> "created", ready |-> "ok", main |-> "serving"]

(***************************************************************************)
(* Further properties of the storage actor                                 *)
(***************************************************************************)
\* the actor finishes the request it holds
Executes == current # None /\ current' = None

\* C26: when the actor finishes a request whose caller has already dropped
\* the receiving end of the reply channel (and whose execute returns), the
\* request has had its full effect on the database, the reply is discarded
\* (no response counted, reply channel untouched), nobody gets an error, and
\* the thread is running with its queue intact, free to take the next one.
C26_DroppedReceiverIsHarmless ==
    [][(Executes /\ oneshot[current.val.id].st = "rx_dropped" /\ ~current.val.panics)
          => /\ conn' = Execute(current.val, conn).table
             /\ executed' = Append(executed, current.val.id)
             /\ oneshot' = oneshot /\ responses' = responses
             /\ lastErr' = lastErr
             /\ thread' = "running" /\ chan' = chan]_vars

\* a caller cancelled its only request, an insert, before the reply; the row
\* is in the table nevertheless, no reply was sent for it, and a request
\* executed after it was answered
C26_Witness ==
    \E i, j \in 1..Len(executed) :
        /\ i < j
        /\ cseq[executed[i][1]] = 1
        /\ oneshot[executed[i]].st = "rx_dropped" /\ responses[executed[i]] = 0
        /\ \E row \in conn : row[1] = executed[i][1]
        /\ responses[executed[j]] = 1
        /\ thread = "running"

\* the db thread is stuck inside a body: it has a request, and neither a
\* call nor a return is possible
Stuck ==
    /\ current # None
    /\ ~ENABLED (ExecuteCall \/ ExecuteInner \/ ExecuteReturn \/ ExecuteBoxedSend)

\* C27: while the db thread executes a request, every request that body runs
\* is a call on the thread's own stack: no step of the thread puts anything
\* into the channel, the channel only ever holds what callers sent, and the
\* thread is never stuck inside a body waiting for a reply.
C27_InnerExecuteIsDirectCall ==
    /\ [](~Stuck)
    /\ [](\A i \in 1..Len(chan) :
             chan[i].kind \in NestedKinds /\ InSeq(chan[i].id, accepted))
    /\ [][frames' # frames => chan' = chan /\ accepted' = accepted]_vars

\* a CachedCompletions request is two calls deep, in the GetBingoData that
\* its GetCurrentBingo runs, while another request waits in the channel
C27_Witness ==
    /\ Len(frames) = 3
    /\ frames[1].kind = "CachedCompletions"
    /\ frames[2].kind = "GetCurrentBingo"
    /\ frames[3].kind = "GetBingoData"
    /\ chan # <<>>

(***************************************************************************)
(* Properties of the HoB write requests                                    *)
(***************************************************************************)
\* C28: whenever another request can read the tables (no request is being
\* executed), an InsertHobEntry or UpdateHobEntry that returned an error has
\* left every table as it found it, one that returned Ok has left the entry
\* with every player or sub-entry it listed, and every entry in the tables
\* has exactly the children that the request which last wrote it listed.
C28_InsertAllOrNothing ==
    hobTxn.pc = "idle" =>
        /\ hobTxn.last.op \in {"InsertHobEntry", "UpdateHobEntry"} =>
              IF hobTxn.last.ok
              THEN /\ hobTxn.last.req.id \in EntryTable(hobDb, hobTxn.last.req.kind)
                   /\ Range(hobTxn.last.req.children)
                         \subseteq ChildrenOf(hobDb, hobTxn.last.req.kind, hobTxn.last.req.id)
              ELSE hobDb = hobTxn.last.before
        /\ \A kind \in HobKinds, id \in HobIds :
              ChildrenOf(hobDb, kind, id) =
                  IF id \in EntryTable(hobDb, kind) THEN hobTxn.wanted[<<kind, id>>] ELSE {}

\* an InsertHobEntry of a new entry failed on its second child, after the
\* entry row and the first child had been inserted, and nothing of it is left
C28_Witness ==
    /\ hobTxn.pc = "idle"
    /\ hobTxn.last.op = "InsertHobEntry" /\ ~hobTxn.last.ok
    /\ Len(hobTxn.last.req.children) = 2
    /\ hobTxn.last.req.children[1] = hobTxn.last.req.children[2]
    /\ hobTxn.last.req.kind = "OneOff"
    /\ hobTxn.last.req.id \notin hobTxn.last.before.oneoff
    /\ hobTxn.last.req.id \notin hobDb.oneoff

PaginateBuild ==
    {[length |-> 0, page_size |-> 5, total_pages |-> 0],
     [length |-> 8, page_size |-> 5, total_pages |-> 1],
     [length |-> 25, page_size |-> 25, total_pages |-> 1],
     [length |-> 13, page_size |-> 5, total_pages |-> 3],
     [length |-> 7, page_size |-> 5, total_pages |-> 2]}

\* C30: for every length and page size the paginate_build test lists, the
\* call reports the total page count the test expects.
C30_TotalPagesAsTested ==
    chunk.some =>
        \A case \in PaginateBuild :
            chunkArgs.length = case.length /\ chunkArgs.page_size = case.page_size
                => ~chunk.val.panic /\ chunk.val.total_pages = case.total_pages

(***************************************************************************)
(* Further properties of the sessions                                      *)
(***************************************************************************)
\* C31: an interaction sent by somebody other than the session's owner,
\* component click or modal submission, passes the owner check without
\* changing the session's state and without resetting its timeout.
C31_NonOwnerChangesNothing ==
    [][\A h \in Interactions :
          hpc[h] = "begin" /\ hpc'[h] # "begin" /\ hsender'[h] = "other"
              => page' = page /\ permit' = permit]_vars

\* C32: once a session has been invalidated, its message is never edited
\* again: the disable-controls edit of the timeout task is the last one.
C32_InvalidateIsLastEdit ==
    [][\A s \in Sessions : invalidated[s] >= 1 => message'[s] = message[s]]_vars

(***************************************************************************)
(* Further properties of the cache                                         *)
(***************************************************************************)
\* C33: once the immortal cache holds true for a player, no step of any
\* player_roles run, in any interleaving, leaves the player without a row
\* saying true.
C33_ImmortalNeverRevoked ==
    [][\A p \in Players :
          (\E row \in RowsOf(immCache, p) : row.val)
              => (\E row \in RowsOf(immCache', p) : row.val)]_vars

\* C34: a call of DbHandle::request that awaits its reply always returns;
\* when the reply sender was dropped without a value (the actor panicked
\* while the request was queued or in execution) it returns RecvError unless
\* its caller drops it first, and a call made after the actor has stopped
\* returns SendError at once.
C34_RequestAlwaysCompletes ==
    /\ \A c \in DbCallers : (cpc[c] = "await") ~> (cpc[c] = "idle")
    /\ [][\A c \in DbCallers :
            /\ (cpc[c] = "await" /\ cpc'[c] = "idle"
                   /\ oneshot[<<c, cseq[c]>>].st = "tx_dropped")
                  => lastErr'[c] \in {"recv_error", "cancelled"}
            /\ (thread = "panicked" /\ cseq'[c] # cseq[c])
                  => lastErr'[c] = "send_error" /\ cpc'[c] = "idle"]_vars

\* the actor has stopped, and a caller whose request was still queued at that
\* moment (accepted, never executed) has got RecvError
C34_Witness ==
    /\ thread = "panicked"
    /\ \E c \in DbCallers :
          /\ cpc[c] = "idle" /\ lastErr[c] = "recv_error"
          /\ InSeq(<<c, cseq[c]>>, accepted)
          /\ ~InSeq(<<c, cseq[c]>>, executed)

\* C35: the queue of the actor never holds more than its capacity; a call is
\* accepted only while there is room, an accepted request goes to the back of
\* the queue and nothing that was queued is displaced by it, a call made while
\* the actor runs is never answered with an error by the send, and a full
\* queue always gets room again, so a caller waiting for room goes on.
C35_BoundedQueueNeverRejects ==
    /\ [](Len(chan) <= ChannelCapacity)
    /\ [][\A c \in DbCallers :
            (cseq'[c] # cseq[c] /\ thread = "running")
                => /\ Len(chan) < ChannelCapacity
                   /\ creq'[c] # None
                   /\ chan' = Append(chan, creq'[c].val)
                   /\ lastErr'[c] = "none"]_vars
    /\ (Len(chan) = ChannelCapacity) ~> (Len(chan) < ChannelCapacity)

\* the queue is full while the actor runs, a caller with a request to submit
\* is held back, and more requests than the capacity were accepted so far
C35_Witness ==
    /\ thread = "running"
    /\ Len(chan) = ChannelCapacity
    /\ Len(accepted) > ChannelCapacity
    /\ \E c \in DbCallers :
          /\ cpc[c] = "idle" /\ cseq[c] < MaxRequests
          /\ \A req \in Requests(c) : ~ENABLED CallerSend(c, req)


\* C36: after every interaction that a handler of the entry list handled
\* successfully and that left the session on the entry list, the stored page
\* is a page of the list as the database holds it (page 0 of an empty list).
C36_StoredPageExists ==
    (/\ navLast.kind # "none" /\ navLast.ok
     /\ navBefore.variant = "SelectEntry"
     /\ navState.variant = "SelectEntry")
        => navState.page <= LastPage(navState)


\* an entry-list state holds no referrer
ListWellFormed(state) ==
    state.variant = "SelectEntry" /\ ~state.referrer_state.some

\* the referrer of a view-entry state is absent or an entry-list state
EntryWellFormed(state) ==
    /\ state.variant = "ViewEntry"
    /\ state.referrer_state.some => ListWellFormed(state.referrer_state.val)

\* the referrer of a view-sub-entry state is absent or a view-entry state for
\* the same entry id
SubentryWellFormed(state) ==
    /\ state.variant = "ViewSubentry"
    /\ state.referrer_state.some =>
          /\ EntryWellFormed(state.referrer_state.val)
          /\ state.referrer_state.val.id = state.entry_id

\* the states behind a state: its referrer, the referrer of that, ...
RECURSIVE ChainLength(_)
ChainLength(state) ==
    IF state.referrer_state.some THEN 1 + ChainLength(state.referrer_state.val) ELSE 0

C38_OneTimerOneReminder ==
    /\ Cardinality(PendingTimers) <= 1
    /\ \A m \in Splashes : splash.time[m] + splash.reactions[m] <= 1


\* the rows that stand in the way of linking discord to uuid
Conflicting(table, discord, uuid) ==
    RowsByDiscord(table, discord) \cup RowsByMinecraft(table, uuid)

\* C39: after any sequence of InsertLinkedUser, UpdateLinkedUser and remove
\* requests every Discord id is linked to at most one UUID and every UUID to
\* at most one Discord id; an InsertLinkedUser that found either side linked
\* left the table as it was and returned the link in its way; an
\* UpdateLinkedUser either removed every link of either side and added the
\* new one, or (having failed) left the table as it was.
C39_LinkTableOneToOne ==
    /\ \A row1 \in conn, row2 \in conn :
          (row1[1] = row2[1] \/ row1[2] = row2[2]) => row1 = row2
    /\ linkLast.kind = "insert" =>
          IF Conflicting(linkLast.before, linkLast.discord, linkLast.uuid) = {}
          THEN /\ linkLast.value = <<None, None>>
               /\ conn = linkLast.before \cup {<<linkLast.discord, linkLast.uuid>>}
          ELSE /\ conn = linkLast.before
               /\ \/ /\ linkLast.value[2].some /\ ~linkLast.value[1].some
                     /\ <<linkLast.discord, linkLast.value[2].val>> \in conn
                  \/ /\ linkLast.value[1].some /\ ~linkLast.value[2].some
                     /\ <<linkLast.value[1].val, linkLast.uuid>> \in conn
    /\ linkLast.kind = "update" =>
          IF linkLast.ok
          THEN conn = (linkLast.before
                          \ Conflicting(linkLast.before, linkLast.discord, linkLast.uuid))
                      \cup {<<linkLast.discord, linkLast.uuid>>}
          ELSE conn = linkLast.before

\* an update that replaced two links at once: the Discord id was linked to
\* another UUID and the UUID to another Discord id
C39_Witness ==
    /\ linkLast.kind = "update" /\ linkLast.ok
    /\ Cardinality(Conflicting(linkLast.before, linkLast.discord, linkLast.uuid)) = 2
    /\ Cardinality(conn) = Cardinality(linkLast.before) - 1


====
